---- MODULE Spec2Model ----
(***************************************************************************)
(* Plan lifecycle, environmental watchdog, validation and emergency        *)
(* replanning of the Gemini Life Planner backend                           *)
(* (backend/app/services/orchestrator.py, agents/scout.py,                 *)
(* agents/simulator.py, agents/validator.py, api/routes.py).               *)
(*                                                                         *)
(* Units: money in whole dollars, risk_score in hundredths (60 = 0.6),     *)
(* traffic_index and temperature in hundredths, time slots in minutes      *)
(* since midnight.  Timestamps (datetime.utcnow()) are abstracted to the   *)
(* number of times the field was stamped.                                  *)
(***************************************************************************)
EXTENDS Integers, Sequences, FiniteSets, TLC

\* ------------------------------------------------------------------------
\* Bounds
\* ------------------------------------------------------------------------
MaxPlans == 1

MaxConns == 2

MaxStamp == 2

MaxTasks == 3

\* longest main_itinerary handed to a direct emergency_replan call
MaxLen == 2

\* ------------------------------------------------------------------------
\* Enumerations (schemas/domain.py)
\* ------------------------------------------------------------------------
PlanStatus == {"draft", "generating", "validating", "verified", "active",
               "monitoring", "completed", "cancelled"}

ActivityType == {"indoor", "outdoor"}

AlertSeverity == {"INFO", "WARNING", "CRITICAL"}

WeatherCode == {"clear", "partly_cloudy", "cloudy", "rain_light",
                "rain_heavy", "snow", "storm", "fog"}

\* ------------------------------------------------------------------------
\* Generic helpers
\* ------------------------------------------------------------------------
RECURSIVE SumSeq(_)
SumSeq(s) == IF s = <<>> THEN 0 ELSE Head(s) + SumSeq(Tail(s))

\* list.index(x): position of the first element equal to x (0 if absent)
RECURSIVE IndexFrom(_, _, _)
IndexFrom(s, x, i) ==
    IF i > Len(s) THEN 0
    ELSE IF s[i] = x THEN i ELSE IndexFrom(s, x, i + 1)

ListIndex(s, x) == IndexFrom(s, x, 1)

\* list.remove(x): drop the first element equal to x
ListRemove(s, x) ==
    LET i == ListIndex(s, x)
    IN IF i = 0 THEN s
       ELSE SubSeq(s, 1, i - 1) \o SubSeq(s, i + 1, Len(s))

Range(s) == {s[i] : i \in DOMAIN s}

\* ------------------------------------------------------------------------
\* Domain objects (schemas/domain.py)
\* ------------------------------------------------------------------------
\* ActivityItem: name is the set of lower-cased words of name+description,
\* constraints is "none" (None), "empty" ({}), "wheelchair" (the map confirms
\* wheelchair_accessible) or "other" (a non-empty map without it).
\* time_slot is the parsed "HH:MM - HH:MM" string; ok = FALSE is a slot the
\* validator cannot parse.
ActivityItem(id, words, typ, risk, amount, category, start, end, cons) ==
    [activity_id |-> id, name |-> words, type |-> typ, risk_score |-> risk,
     budget |-> [amount |-> amount, currency |-> "USD", category |-> category],
     time_slot |-> [ok |-> start >= 0, start |-> start, end |-> end],
     constraints |-> cons, status |-> "pending"]

\* reasoning_path: Optional[str]; none = TRUE is Python's None, otherwise
\* the text is the sequence of its entries (empty sequence = "").
NoReasoning == [none |-> TRUE, text |-> <<>>]

EmptyReasoning == [none |-> FALSE, text |-> <<>>]

LlmReasoning == [none |-> FALSE, text |-> <<[kind |-> "llm"]>>]

TripPlan(id, itinerary, alts, reasoning) ==
    [plan_id |-> id, status |-> "draft", main_itinerary |-> itinerary,
     alternatives |-> alts, reasoning_path |-> reasoning,
     created_at |-> 0, updated_at |-> 0]

UserProfile(limit, prefs, rain, diet, mobility) ==
    [budget_limit |-> limit, preferences |-> prefs, sensitive_to_rain |-> rain,
     dietary_restrictions |-> diet, mobility_constraints |-> mobility]

EnvironmentState(w, temp, traffic) ==
    [weather_code |-> w, temperature |-> temp, traffic_index |-> traffic]

AlertSignal(ctype, sev, pid, snap) ==
    [source |-> "SCOUT_AGENT", change_type |-> ctype, severity |-> sev,
     affected_plan_id |-> pid, payload |-> snap]

\* ------------------------------------------------------------------------
\* Emergency Replanner (agents/simulator.py)
\* ------------------------------------------------------------------------
\* _find_best_alternative: the INDOOR alternatives in list order; the caller
\* takes the first one, the empty sequence stands for None.
\* variant: the INDOOR alternatives are collected last to first
IndoorAlternativesReversed(alternatives) ==
    LET indoor == SelectSeq(alternatives, LAMBDA alt : alt.type = "indoor")
    IN [i \in 1..Len(indoor) |-> indoor[Len(indoor) + 1 - i]]

IndoorAlternatives(alternatives) ==
    SelectSeq(alternatives, LAMBDA alt : alt.type = "indoor")

\* variant: without an INDOOR alternative the first alternative of any type
\* is taken
FindBestAlternativeAnyType(target_activity, alternatives, current_weather) ==
    LET indoor_alternatives == IndoorAlternatives(alternatives)
    IN IF indoor_alternatives # <<>> THEN <<indoor_alternatives[1]>>
       ELSE IF alternatives # <<>> THEN <<alternatives[1]>>
       ELSE <<>>

FindBestAlternative(target_activity, alternatives, current_weather) ==
    LET indoor_alternatives == IndoorAlternatives(alternatives)
    IN IF indoor_alternatives = <<>> THEN <<>>
       ELSE <<indoor_alternatives[1]>>

\* variant: the risk thresholds are inclusive
IsAffectedInclusive(activity, severity) ==
    \/ /\ severity = "CRITICAL"
       /\ activity.type = "outdoor"
       /\ activity.risk_score >= 60
    \/ /\ severity = "WARNING"
       /\ activity.type = "outdoor"
       /\ activity.risk_score >= 80

\* Step 2 of emergency_replan: the activities selected for replacement
IsAffected(activity, severity) ==
    \/ /\ severity = "CRITICAL"
       /\ activity.type = "outdoor"
       /\ activity.risk_score > 60
    \/ /\ severity = "WARNING"
       /\ activity.type = "outdoor"
       /\ activity.risk_score > 80

\* variant: the selection looks at the risk score only
AffectedActivitiesAnyType(plan, alert) ==
    SelectSeq(plan.main_itinerary,
              LAMBDA act : IsAffected([act EXCEPT !.type = "outdoor"],
                                      alert.severity))

AffectedActivities(plan, alert) ==
    SelectSeq(plan.main_itinerary, LAMBDA act : IsAffected(act, alert.severity))

\* Step 3 of emergency_replan: the swap loop over the affected activities
RECURSIVE SwapLoop(_, _, _, _)
\* variant: the loop stops after the first affected activity
SwapLoopOnce(updated_itinerary, affected_activities, alternatives, weather) ==
    IF affected_activities = <<>> THEN updated_itinerary
    ELSE LET affected == Head(affected_activities)
             best_alternative == FindBestAlternative(affected, alternatives, weather)
             index == ListIndex(updated_itinerary, affected)
         IN IF best_alternative # <<>> /\ index # 0
            THEN [updated_itinerary EXCEPT ![index] = best_alternative[1]]
            ELSE updated_itinerary

SwapLoop(updated_itinerary, affected_activities, alternatives, weather) ==
    IF affected_activities = <<>> THEN updated_itinerary
    ELSE LET affected == Head(affected_activities)
             best_alternative == FindBestAlternative(affected, alternatives, weather)
             index == ListIndex(updated_itinerary, affected)
             next == IF best_alternative # <<>> /\ index # 0
                     THEN [updated_itinerary EXCEPT ![index] = best_alternative[1]]
                     ELSE updated_itinerary
         IN SwapLoop(next, Tail(affected_activities), alternatives, weather)

\* `if updated_plan.reasoning_path:` is false for None and for ""
Truthy(reasoning_path) == ~reasoning_path.none /\ reasoning_path.text # <<>>

AuditNote(alert, affected_activities) ==
    [kind |-> "auto_update", change_type |-> alert.change_type,
     swapped |-> Len(affected_activities)]

\* variant: the early return hands back a freshly stamped copy
ReturnStampedCopy(original_plan) ==
    [original_plan EXCEPT !.updated_at = original_plan.updated_at + 1]

\* Step 1, `return original_plan`: the very object that was passed in
ReturnOriginal(original_plan) == original_plan

\* variant: the updated plan is built as a new TripPlan, whose plan_id comes
\* from the default factory
EmergencyReplanFreshId(original_plan, alert) ==
    IF alert.severity = "INFO" THEN original_plan
    ELSE LET affected_activities == AffectedActivities(original_plan, alert)
         IN IF affected_activities = <<>> THEN original_plan
            ELSE [original_plan EXCEPT
                    !.plan_id = original_plan.plan_id + MaxPlans,
                    !.main_itinerary =
                        SwapLoop(original_plan.main_itinerary, affected_activities,
                                 original_plan.alternatives,
                                 alert.payload.weather_code),
                    !.updated_at = original_plan.updated_at + 1,
                    !.status = "active"]

EmergencyReplan(original_plan, alert) ==
    IF alert.severity = "INFO" THEN ReturnOriginal(original_plan)
    ELSE LET affected_activities == AffectedActivities(original_plan, alert)
         IN IF affected_activities = <<>> THEN original_plan
            ELSE [original_plan EXCEPT
                    !.main_itinerary =
                        SwapLoop(original_plan.main_itinerary, affected_activities,
                                 original_plan.alternatives,
                                 alert.payload.weather_code),
                    !.updated_at = original_plan.updated_at + 1,
                    !.status = "active",
                    !.reasoning_path =
                        IF Truthy(original_plan.reasoning_path)
                        THEN [none |-> FALSE,
                              text |-> Append(original_plan.reasoning_path.text,
                                              AuditNote(alert, affected_activities))]
                        ELSE original_plan.reasoning_path]

\* ------------------------------------------------------------------------
\* Validation engine (agents/validator.py)
\* ------------------------------------------------------------------------
\* The budget arithmetic of the validator is IEEE-754 double arithmetic.  A
\* double v with 0 <= v < 2^12 that is a multiple of 2^-56 is the integer
\* v * 2^56, written as five 16-bit limbs, least significant first.  All
\* dollar amounts and limits of the model are whole numbers, so every value
\* _check_budget computes is of this kind.
RECURSIVE BitLen(_)
BitLen(n) == IF n = 0 THEN 0 ELSE 1 + BitLen(n \div 2)

RECURSIVE MulLimbs(_, _, _)
MulLimbs(x, k, carry) ==
    IF x = <<>> THEN <<>>
    ELSE LET p == Head(x) * k + carry
         IN <<p % 65536>> \o MulLimbs(Tail(x), k, p \div 65536)

RECURSIVE AddLimbs(_, _, _)
AddLimbs(x, y, carry) ==
    IF x = <<>> THEN <<>>
    ELSE LET sum == Head(x) + Head(y) + carry
         IN <<sum % 65536>> \o AddLimbs(Tail(x), Tail(y), sum \div 65536)

\* the number of significant bits of x
BitLength(x) ==
    LET nonzero == { i \in DOMAIN x : x[i] # 0 }
    IN IF nonzero = {} THEN 0
       ELSE LET top == CHOOSE i \in nonzero : \A j \in nonzero : j <= i
            IN 16 * (top - 1) + BitLen(x[top])

\* the exact result x rounded to a 53-bit significand, ties to even
RoundToDouble(x) ==
    LET sh == BitLength(x) - 53
    IN IF sh <= 0 THEN x
       ELSE LET unit == 2 ^ sh
                r == x[1] % unit
                down == [x EXCEPT ![1] = @ - r]
                odd == (x[1] \div unit) % 2 = 1
                up == r * 2 > unit \/ (r * 2 = unit /\ odd)
            IN IF up THEN AddLimbs(down, <<unit, 0, 0, 0, 0>>, 0) ELSE down

\* x > y
GreaterThan(x, y) ==
    LET differ == { i \in DOMAIN x : x[i] # y[i] }
    IN /\ differ # {}
       /\ LET top == CHOOSE i \in differ : \A j \in differ : j <= i
          IN x[top] > y[top]

\* float(k) of a whole number k
Float(k) == MulLimbs(<<0, 0, 0, 256, 0>>, k, 0)

\* float(k) * c: the exact product, rounded
FloatTimes(k, c) == RoundToDouble(MulLimbs(c, k, 0))

\* x + y: the exact sum, rounded
FloatPlus(x, y) == RoundToDouble(AddLimbs(x, y, 0))

\* 0.10 = 0x1.999999999999ap-4
BUDGET_BUFFER_PERCENT == <<39322, 39321, 39321, 25, 0>>

MIN_TRANSITION_TIME == 15

MAX_DAILY_ACTIVITIES == 8

Amounts(itinerary) == [i \in DOMAIN itinerary |-> itinerary[i].budget.amount]

\* _check_budget; 0.95 = 0x1.e666666666666p-1
CheckBudget(plan, profile) ==
    LET total == SumSeq(Amounts(plan.main_itinerary))
        buffer == FloatTimes(total, BUDGET_BUFFER_PERCENT)
        total_with_buffer == FloatPlus(Float(total), buffer)
        over == GreaterThan(total_with_buffer, Float(profile.budget_limit))
        high == /\ ~over
                /\ GreaterThan(total_with_buffer,
                               FloatTimes(profile.budget_limit,
                                          <<13104, 13107, 13107, 243, 0>>))
    IN [violations |-> IF over THEN <<"budget_exceeded">> ELSE <<>>,
        warnings |-> IF high THEN <<"budget_usage_high">> ELSE <<>>]

WRAPPER_KEYWORDS == {"transportation", "travel budget", "general", "overall"}

\* _check_time_conflicts: adjacent pairs of the itinerary, in order
RECURSIVE TransitionChecks(_, _)
TransitionChecks(itinerary, i) ==
    IF i >= Len(itinerary) THEN [violations |-> <<>>, warnings |-> <<>>]
    ELSE LET gap == itinerary[i + 1].time_slot.start - itinerary[i].time_slot.end
             rest == TransitionChecks(itinerary, i + 1)
         IN [violations |-> (IF gap < 0 THEN <<"time_overlap">> ELSE <<>>)
                                \o rest.violations,
             warnings |-> (IF gap >= 0 /\ gap < MIN_TRANSITION_TIME
                           THEN <<"tight_schedule">> ELSE <<>>)
                                \o rest.warnings]

CheckTimeConflicts(plan) ==
    LET activities_to_check ==
            SelectSeq(plan.main_itinerary,
                      LAMBDA act : act.name \cap WRAPPER_KEYWORDS = {})
        packed == IF Len(activities_to_check) > MAX_DAILY_ACTIVITIES
                  THEN <<"too_packed">> ELSE <<>>
        activities_with_times ==
            SelectSeq(plan.main_itinerary, LAMBDA act : act.time_slot.ok)
        trans == TransitionChecks(activities_with_times, 1)
    IN [violations |-> trans.violations, warnings |-> packed \o trans.warnings]

IsFoodActivity(act) ==
    \/ act.budget.category = "food"
    \/ act.name \cap {"restaurant", "cafe", "food"} # {}

\* one violation per (food activity, restriction) pair whose text lacks it
RECURSIVE DietaryViolations(_, _)
DietaryViolations(food_activities, restrictions) ==
    IF food_activities = <<>> THEN <<>>
    ELSE SelectSeq(restrictions, LAMBDA r : r \notin Head(food_activities).name)
         \o DietaryViolations(Tail(food_activities), restrictions)

CheckDietaryRestrictions(plan, restrictions) ==
    LET food_activities == SelectSeq(plan.main_itinerary, IsFoodActivity)
    IN IF food_activities = <<>>
          /\ Range(restrictions) \cap {"halal", "kosher", "vegan"} # {}
       THEN [violations |-> <<>>, warnings |-> <<"no_food_activities">>]
       ELSE [violations |-> DietaryViolations(food_activities, restrictions),
             warnings |-> <<>>]

\* mobility constraints of the profile: a set of the keys that are set
CheckMobilityConstraints(plan, constraints) ==
    LET unconfirmed ==
            IF "wheelchair_accessible" \in constraints
            THEN SelectSeq(plan.main_itinerary,
                           LAMBDA act : act.constraints = "other")
            ELSE <<>>
        walking == IF "max_walking_distance_km" \in constraints
                   THEN <<"walking_distance">> ELSE <<>>
    IN [violations |-> <<>>,
        warnings |-> [i \in DOMAIN unconfirmed |-> "accessibility_not_confirmed"]
                     \o walking]

CheckWeatherSensitivity(plan) ==
    LET outdoor_activities ==
            SelectSeq(plan.main_itinerary, LAMBDA act : act.type = "outdoor")
        high_risk_outdoor ==
            SelectSeq(outdoor_activities, LAMBDA act : act.risk_score > 70)
    IN [warnings |->
          IF outdoor_activities = <<>> THEN <<>>
          ELSE (IF IndoorAlternatives(plan.alternatives) = <<>>
                THEN <<"no_indoor_alternatives">> ELSE <<>>)
               \o (IF high_risk_outdoor # <<>>
                   THEN <<"high_weather_risk">> ELSE <<>>)]

NoCheck == [violations |-> <<>>, warnings |-> <<>>]

\* calculate_score computes in IEEE-754 doubles throughout.  A natural number
\* of any size is the sequence of its base-2^15 digits, least significant
\* first, without a leading zero digit; a double is m * 2^e with m < 2^53.
RECURSIVE BigNorm(_)
BigNorm(x) ==
    IF x = <<>> \/ x[Len(x)] # 0 THEN x ELSE BigNorm(SubSeq(x, 1, Len(x) - 1))

RECURSIVE Big(_)
Big(k) == IF k = 0 THEN <<>> ELSE <<k % 32768>> \o Big(k \div 32768)

RECURSIVE BigToInt(_)
BigToInt(x) == IF x = <<>> THEN 0 ELSE Head(x) + 32768 * BigToInt(Tail(x))

RECURSIVE BigAdd(_, _, _)
BigAdd(x, y, carry) ==
    IF x = <<>> /\ y = <<>> THEN Big(carry)
    ELSE LET a == IF x = <<>> THEN 0 ELSE Head(x)
             b == IF y = <<>> THEN 0 ELSE Head(y)
             sum == a + b + carry
         IN <<sum % 32768>>
            \o BigAdd(IF x = <<>> THEN x ELSE Tail(x),
                      IF y = <<>> THEN y ELSE Tail(y), sum \div 32768)

RECURSIVE BigSubDigits(_, _, _)
BigSubDigits(x, y, borrow) ==
    IF x = <<>> THEN <<>>
    ELSE LET b == IF y = <<>> THEN 0 ELSE Head(y)
             d == Head(x) - b - borrow
         IN <<IF d < 0 THEN d + 32768 ELSE d>>
            \o BigSubDigits(Tail(x), IF y = <<>> THEN y ELSE Tail(y),
                            IF d < 0 THEN 1 ELSE 0)

\* x - y for x >= y
BigSub(x, y) == BigNorm(BigSubDigits(x, y, 0))

\* x < y
BigLess(x, y) ==
    IF Len(x) # Len(y) THEN Len(x) < Len(y)
    ELSE LET differ == { i \in DOMAIN x : x[i] # y[i] }
         IN /\ differ # {}
            /\ LET top == CHOOSE i \in differ : \A j \in differ : j <= i
               IN x[top] < y[top]

RECURSIVE BigMulDigit(_, _, _)
BigMulDigit(x, k, carry) ==
    IF x = <<>> THEN Big(carry)
    ELSE LET p == Head(x) * k + carry
         IN <<p % 32768>> \o BigMulDigit(Tail(x), k, p \div 32768)

\* x * k for a digit k
BigMulSmall(x, k) == BigNorm(BigMulDigit(x, k, 0))

RECURSIVE BigMul(_, _)
BigMul(x, y) ==
    IF y = <<>> THEN <<>>
    ELSE LET rest == BigMul(x, Tail(y))
         IN BigAdd(BigMulSmall(x, Head(y)),
                   IF rest = <<>> THEN <<>> ELSE <<0>> \o rest, 0)

BigBitLen(x) == IF x = <<>> THEN 0 ELSE 15 * (Len(x) - 1) + BitLen(x[Len(x)])

\* x * 2^n
BigShl(x, n) ==
    IF x = <<>> THEN <<>>
    ELSE [i \in 1..(n \div 15) |-> 0] \o BigMulSmall(x, 2 ^ (n % 15))

RECURSIVE BigDivDigit(_, _, _)
BigDivDigit(x, k, rem) ==
    IF x = <<>> THEN <<>>
    ELSE LET cur == rem * 32768 + x[Len(x)]
         IN BigDivDigit(SubSeq(x, 1, Len(x) - 1), k, cur % k) \o <<cur \div k>>

\* x \div 2^n
BigShr(x, n) ==
    BigNorm(BigDivDigit(SubSeq(x, n \div 15 + 1, Len(x)), 2 ^ (n % 15), 0))

\* five more bits of the largest digit c with c * d <= r
DigitStep(r, d, base, unit) ==
    LET fits == { c \in 0..31 : ~BigLess(r, BigMulSmall(d, base + c * unit)) }
    IN base + unit * (CHOOSE c \in fits : \A c2 \in fits : c2 <= c)

\* the largest digit c with c * d <= r, for r < d * 2^15
QuotientDigit(r, d) ==
    DigitStep(r, d, DigitStep(r, d, DigitStep(r, d, 0, 1024), 32), 1)

\* the next digit of a long division: up is the result for the digits above
\* lo
DivStep(up, lo, d) ==
    IF up.r = <<>> /\ lo = 0 THEN [q |-> <<0>> \o up.q, r |-> <<>>]
    ELSE LET r2 == <<lo>> \o up.r
             digit == QuotientDigit(r2, d)
         IN [q |-> BigNorm(<<digit>> \o up.q),
             r |-> BigSub(r2, BigMulSmall(d, digit))]

\* quotient and remainder of n by d # 0, one digit at a time from the top
RECURSIVE BigDivMod(_, _)
BigDivMod(n, d) ==
    IF BigLess(n, d) THEN [q |-> <<>>, r |-> n]
    ELSE DivStep(BigDivMod(Tail(n), d), Head(n), d)

\* n rounded at bit sh to the nearest, ties to even: round(n / 2^sh)
RoundShift(n, sh) ==
    LET q == BigShr(n, sh)
        rem == BigSub(n, BigShl(q, sh))
        half == BigShl(<<1>>, sh - 1)
        up == BigLess(half, rem) \/ (rem = half /\ q # <<>> /\ q[1] % 2 = 1)
    IN IF up THEN BigAdd(q, <<1>>, 0) ELSE q

\* n * 2^e for n # 0, written without low zero digits
RECURSIVE Reduced(_, _)
Reduced(n, e) ==
    IF Head(n) # 0 THEN [m |-> n, e |-> e] ELSE Reduced(Tail(n), e + 15)

\* the double nearest to n * 2^e
Double(n, e) ==
    IF n = <<>> THEN [m |-> <<>>, e |-> 0]
    ELSE LET sh == BigBitLen(n) - 53
         IN IF sh <= 0 THEN Reduced(n, e)
            ELSE Reduced(RoundShift(n, sh), e + sh)

\* float(k) of a whole number k
FromInt(k) == [m |-> Big(k), e |-> 0]

\* x * y
FMul(x, y) ==
    IF x.m = <<>> \/ y.m = <<>> THEN FromInt(0)
    ELSE Double(BigMul(x.m, y.m), x.e + y.e)

\* x + y
FAdd(x, y) ==
    IF x.m = <<>> THEN y
    ELSE IF y.m = <<>> THEN x
    ELSE LET e == IF x.e < y.e THEN x.e ELSE y.e
         IN Double(BigAdd(BigShl(x.m, x.e - e), BigShl(y.m, y.e - e), 0), e)

\* x / y for y # 0: the quotient to 56 bits and more, the lowest bit set
\* when the division left a remainder
FDiv(x, y) ==
    IF x.m = <<>> THEN x
    ELSE LET need == 56 + BigBitLen(y.m) - BigBitLen(x.m)
             k == IF need > 0 THEN need ELSE 0
             dm == BigDivMod(BigShl(x.m, k), y.m)
         IN Double(BigAdd(dm.q, dm.q, IF dm.r = <<>> THEN 0 ELSE 1),
                   x.e - y.e - k - 1)

\* x < y
FLess(x, y) ==
    LET e == IF x.e < y.e THEN x.e ELSE y.e
    IN BigLess(BigShl(x.m, x.e - e), BigShl(y.m, y.e - e))

\* min(x, y) and max(x, y) of Python: the first argument unless the second
\* is strictly smaller (larger)
FMin(x, y) == IF FLess(y, x) THEN y ELSE x

FMax(x, y) == IF FLess(x, y) THEN y ELSE x

\* the double a decimal literal num/den denotes
Literal(num, den) == FDiv(FromInt(num), FromInt(den))

\* round(x, 2) in hundredths: the exact value of x to the nearest hundredth,
\* ties to even
RoundHundredths(x) ==
    LET n == BigMulSmall(x.m, 100)
    IN BigToInt(IF x.e >= 0 THEN BigShl(n, x.e) ELSE RoundShift(n, -x.e))

\* matched_activities / len(main_itinerary), 0.5 without preferences; a
\* preference matches an activity whose text holds it
PreferenceMatch(plan, preferences) ==
    IF preferences # <<>>
    THEN LET matched_activities ==
                 Cardinality({ i \in DOMAIN plan.main_itinerary :
                                 plan.main_itinerary[i].name
                                   \cap Range(preferences) # {} })
         IN FDiv(FromInt(matched_activities), FromInt(Len(plan.main_itinerary)))
    ELSE Literal(5, 10)

\* (type_diversity + category_diversity) / 2
Diversity(plan) ==
    LET activity_types ==
            { plan.main_itinerary[i].type : i \in DOMAIN plan.main_itinerary }
        budget_categories ==
            { plan.main_itinerary[i].budget.category :
                i \in DOMAIN plan.main_itinerary }
        type_diversity == FDiv(FromInt(Cardinality(activity_types)), FromInt(2))
        category_diversity ==
            FMin(FDiv(FromInt(Cardinality(budget_categories)), FromInt(4)),
                 FromInt(1))
    IN FDiv(FAdd(type_diversity, category_diversity), FromInt(2))

\* _calculate_time_efficiency
CalculateTimeEfficiency(plan) ==
    LET avg_activities_per_day == Len(plan.main_itinerary)
    IN IF Len(plan.main_itinerary) < 2 THEN Literal(5, 10)
       ELSE IF 3 <= avg_activities_per_day /\ avg_activities_per_day <= 6
       THEN FromInt(1)
       ELSE IF avg_activities_per_day < 3 THEN Literal(6, 10)
       ELSE Literal(7, 10)

\* avg_per_activity against $20 and $200
BudgetEfficiency(plan) ==
    LET total_budget == FromInt(SumSeq(Amounts(plan.main_itinerary)))
        avg_per_activity ==
            FDiv(total_budget, FromInt(Len(plan.main_itinerary)))
    IN IF ~FLess(avg_per_activity, FromInt(20))
          /\ ~FLess(FromInt(200), avg_per_activity)
       THEN FromInt(1)
       ELSE IF FLess(avg_per_activity, FromInt(20))
       THEN FDiv(avg_per_activity, FromInt(20))
       ELSE FMax(Literal(5, 10), FDiv(FromInt(200), avg_per_activity))

\* variant: the coverage ratio is not capped
RiskMitigationUncapped(plan) ==
    FDiv(FDiv(FromInt(Len(plan.alternatives)),
              FromInt(Len(plan.main_itinerary))), Literal(5, 10))

\* min(alternative_ratio / 0.5, 1.0), 0.0 without alternatives
RiskMitigation(plan) ==
    IF plan.alternatives # <<>>
    THEN LET alternative_ratio ==
                 FDiv(FromInt(Len(plan.alternatives)),
                      FromInt(Len(plan.main_itinerary)))
         IN FMin(FDiv(alternative_ratio, Literal(5, 10)), FromInt(1))
    ELSE FromInt(0)

\* the entries of `scores`, in the order of the dict, for a non-empty itinerary
Scores(plan, preferences) ==
    <<PreferenceMatch(plan, preferences), Diversity(plan),
      CalculateTimeEfficiency(plan), BudgetEfficiency(plan),
      RiskMitigation(plan)>>

\* 0.40, 0.20, 0.20, 0.10, 0.10 in the same order
weights ==
    <<Literal(40, 100), Literal(20, 100), Literal(20, 100), Literal(10, 100),
      Literal(10, 100)>>

\* sum(scores[k] * weights[k] for k in scores), from the left
RECURSIVE WeightedSum(_, _)
WeightedSum(scores, n) ==
    IF n = 0 THEN FromInt(0)
    ELSE FAdd(WeightedSum(scores, n - 1), FMul(scores[n], weights[n]))

\* calculate_score: the sub-scores and the returned value in hundredths
CalculateScore(plan, preferences) ==
    IF plan.main_itinerary = <<>> THEN [scores |-> <<>>, score |-> 0]
    ELSE LET scores == Scores(plan, preferences)
         IN [scores |-> scores,
             score |-> RoundHundredths(WeightedSum(scores, Len(scores)))]

\* variant: every plan is reported valid
IsValidAlways(violations) == TRUE

\* `is_valid = len(violations) == 0`
IsValid(violations) == Len(violations) = 0

ValidateConstraints(plan, profile) ==
    LET budget_result == CheckBudget(plan, profile)
        time_result == CheckTimeConflicts(plan)
        dietary_result == IF profile.dietary_restrictions # <<>>
                          THEN CheckDietaryRestrictions(plan, profile.dietary_restrictions)
                          ELSE NoCheck
        mobility_result == IF profile.mobility_constraints # {}
                           THEN CheckMobilityConstraints(plan, profile.mobility_constraints)
                           ELSE NoCheck
        weather_result == IF profile.sensitive_to_rain
                          THEN CheckWeatherSensitivity(plan)
                          ELSE [warnings |-> <<>>]
        violations == budget_result.violations \o time_result.violations
                      \o dietary_result.violations \o mobility_result.violations
        warnings == budget_result.warnings \o time_result.warnings
                    \o dietary_result.warnings \o mobility_result.warnings
                    \o weather_result.warnings
    IN [is_valid |-> IsValid(violations),
        violations |-> violations, warnings |-> warnings]

\* ------------------------------------------------------------------------
\* Change Detector (agents/scout.py)
\* ------------------------------------------------------------------------
critical_conditions == {"rain_heavy", "storm", "snow"}

\* variant: the light-rain rule is tested first
AssessWeatherSeverityRainFirst(old_weather, new_weather) ==
    IF new_weather = "rain_light" THEN "WARNING"
    ELSE IF old_weather \in critical_conditions /\ new_weather = "clear"
    THEN "INFO"
    ELSE IF new_weather \in critical_conditions
    THEN "CRITICAL"
    ELSE "WARNING"

AssessWeatherSeverity(old_weather, new_weather) ==
    IF old_weather \notin critical_conditions /\ new_weather \in critical_conditions
    THEN "CRITICAL"
    ELSE IF new_weather = "rain_light" THEN "WARNING"
    ELSE IF old_weather \in critical_conditions /\ new_weather = "clear"
    THEN "INFO"
    ELSE "WARNING"

Abs(x) == IF x < 0 THEN -x ELSE x

\* variant: a delta of exactly 5.0 is still a WARNING
TrafficSeverityInclusive(traffic_delta) ==
    IF traffic_delta <= 500 THEN "WARNING" ELSE "CRITICAL"

\* `WARNING if traffic_delta < 5.0 else CRITICAL`
TrafficSeverity(traffic_delta) ==
    IF traffic_delta < 500 THEN "WARNING" ELSE "CRITICAL"

\* variant: a temperature delta of exactly 10.0 already counts
TemperatureChangedInclusive(temp_delta) == temp_delta >= 1000

\* `if temp_delta > 10.0:`
TemperatureChanged(temp_delta) == temp_delta > 1000

\* variant: the traffic test comes before the weather test
CompareStatesTrafficFirst(last, current) ==
    LET traffic_delta == Abs(current.traffic_index - last.traffic_index)
        temp_delta == Abs(current.temperature - last.temperature)
    IN IF traffic_delta > 300
       THEN <<AlertSignal("traffic", TrafficSeverity(traffic_delta),
                          0, current)>>
       ELSE IF last.weather_code # current.weather_code
       THEN <<AlertSignal("weather",
                          AssessWeatherSeverity(last.weather_code,
                                                current.weather_code),
                          0, current)>>
       ELSE IF TemperatureChanged(temp_delta)
       THEN <<AlertSignal("temperature", "WARNING", 0, current)>>
       ELSE <<>>

\* compare_states: the empty sequence is None, otherwise one AlertSignal with
\* affected_plan_id still "" (0 here)
CompareStates(last, current) ==
    LET traffic_delta == Abs(current.traffic_index - last.traffic_index)
        temp_delta == Abs(current.temperature - last.temperature)
    IN IF last.weather_code # current.weather_code
       THEN <<AlertSignal("weather",
                          AssessWeatherSeverity(last.weather_code,
                                                current.weather_code),
                          0, current)>>
       ELSE IF traffic_delta > 300
       THEN <<AlertSignal("traffic", TrafficSeverity(traffic_delta),
                          0, current)>>
       ELSE IF TemperatureChanged(temp_delta)
       THEN <<AlertSignal("temperature", "WARNING", 0, current)>>
       ELSE <<>>

\* ------------------------------------------------------------------------
\* Inputs: what the generative oracle, the callers and the environment
\* provider can hand to the core
\* ------------------------------------------------------------------------
Hike == ActivityItem("a1", {"hike"}, "outdoor", 90, 30, "entertainment",
                     540, 660, "none")

Picnic == ActivityItem("a2", {"picnic", "food", "vegan"}, "outdoor", 50, 20,
                       "food", 690, 750, "other")

Concert == ActivityItem("a3", {"concert", "art"}, "outdoor", 70, 40,
                        "entertainment", 780, 900, "wheelchair")

Museum == ActivityItem("a4", {"museum", "art"}, "indoor", 20, 25,
                       "entertainment", 670, 780, "empty")

Dinner == ActivityItem("a5", {"restaurant"}, "indoor", 10, 300, "food",
                       650, 800, "none")

Kayak == ActivityItem("b1", {"kayak"}, "outdoor", 90, 30, "entertainment",
                      540, 660, "none")

Cinema == ActivityItem("b2", {"cinema"}, "indoor", 10, 15, "entertainment",
                       540, 660, "wheelchair")

Gallery == ActivityItem("b3", {"gallery", "art"}, "indoor", 10, 20,
                        "entertainment", 780, 900, "none")

\* draft plans the oracle may return (plan_id is overwritten by run())
Drafts ==
    { TripPlan(0, <<Hike, Picnic, Concert>>, <<Kayak, Cinema, Gallery>>, LlmReasoning),
      TripPlan(0, <<Hike, Museum>>, <<Kayak>>, NoReasoning),
      TripPlan(0, <<>>, <<>>, EmptyReasoning),
      TripPlan(0, <<Hike, Dinner>>, <<Cinema>>, LlmReasoning) }

DefaultProfile == UserProfile(200, <<"food", "art">>, FALSE, <<>>, {})

StrictProfile == UserProfile(100, <<>>, TRUE, <<"vegan">>,
                             {"wheelchair_accessible", "max_walking_distance_km"})

Profiles == {DefaultProfile, StrictProfile}

\* what llm_client.generate_json can hand to simulator.run: a well-formed
\* draft, text that is not JSON, JSON that is not an object, and a JSON
\* object that TripPlan(**data) rejects
OracleOutputs ==
    { [kind |-> "draft", draft |-> d] : d \in Drafts }
    \cup { [kind |-> k] : k \in {"not_json", "not_object", "schema_invalid"} }

\* the snapshot get_realtime_state builds when no override is set
DefaultState == EnvironmentState("clear", 2000, 350)

StormState == EnvironmentState("storm", 2000, 350)

DrizzleState == EnvironmentState("rain_light", 2000, 350)

MockStates == {StormState, DrizzleState}

\* an OUTDOOR activity whose risk is exactly 0.6 and an INDOOR one whose
\* risk is high
Stroll == ActivityItem("a6", {"stroll"}, "outdoor", 60, 0, "entertainment",
                       910, 960, "none")

Sauna == ActivityItem("a7", {"sauna"}, "indoor", 90, 35, "entertainment",
                      970, 1030, "none")

SeqsUpTo(S, n) == UNION {[1..k -> S] : k \in 0..n}

\* plans handed to emergency_replan directly
ReplanPlans ==
    { [TripPlan(1, itinerary, alts, reasoning) EXCEPT !.status = "active",
                                                      !.updated_at = 1] :
        itinerary \in SeqsUpTo({Hike, Picnic, Stroll, Museum, Sauna, Cinema},
                               MaxLen),
        alts \in {<<>>, <<Kayak>>, <<Gallery>>, <<Kayak, Cinema, Gallery>>},
        reasoning \in {NoReasoning, EmptyReasoning, LlmReasoning} }

\* plans and profiles handed to validate_constraints directly: totals of
\* $57 and $60 against a $66 limit and of $90 against a $100 limit sit on
\* and around the budget thresholds; Tea carries a constraint map that says
\* nothing about wheelchairs, Opera one that confirms access
Tea == ActivityItem("a8", {"tea"}, "indoor", 10, 27, "entertainment",
                    840, 900, "other")

Opera == ActivityItem("a9", {"opera"}, "indoor", 10, 90, "entertainment",
                      1140, 1260, "wheelchair")

ValidatorPlans ==
    { TripPlan(1, itinerary, <<>>, LlmReasoning) :
        itinerary \in SeqsUpTo({Hike, Tea, Opera, Museum, Picnic}, MaxLen) }

ValidatorProfiles ==
    { UserProfile(limit, <<>>, FALSE, diet, mobility) :
        limit \in {66, 100},
        diet \in {<<>>, <<"vegan">>, <<"gluten_free">>},
        mobility \in {{}, {"wheelchair_accessible"}} }

ReplanAlerts ==
    { AlertSignal("weather", sev, 1, StormState) : sev \in AlertSeverity }

\* snapshots handed to compare_states directly; the traffic indices whose
\* deltas sit on a threshold (3.0, 5.0) are binary fractions, on which the
\* float subtraction of the code is exact
TrafficLevels == {0, 300, 301, 350, 499, 500, 501, 650, 850, 1000}

\* the fields of EnvironmentState that compare_states never reads: timestamp
\* (a counter), precipitation_probability (hundredths) and is_poi_open
SnapshotDetail(st, ts, precip, poi) ==
    [weather_code |-> st.weather_code, temperature |-> st.temperature,
     traffic_index |-> st.traffic_index, timestamp |-> ts,
     precipitation_probability |-> precip, is_poi_open |-> poi]

LastSnapshots ==
    { SnapshotDetail(EnvironmentState(w, 2000, traffic), 0, 10, TRUE) :
        w \in WeatherCode, traffic \in TrafficLevels }

CurrentSnapshots ==
    { SnapshotDetail(EnvironmentState(w, temp, traffic),
                     detail[1], detail[2], detail[3]) :
        w \in WeatherCode, temp \in {1000, 2000, 3000, 3001},
        traffic \in TrafficLevels,
        detail \in {<<0, 10, TRUE>>, <<1, 90, FALSE>>} }

\* set_timeline arguments: one due event in the 2-tuple form of the class
\* docstring of MockEnvironmentManager, and one due well-formed event
BadTimeline ==
    <<[arity |-> 2, due |-> TRUE, weather_code |-> "rain_heavy",
       traffic_index |-> 0]>>

RainTimeline ==
    <<[arity |-> 3, due |-> TRUE, weather_code |-> "rain_heavy",
       traffic_index |-> 850]>>

Timelines == {BadTimeline, RainTimeline}

\* callbacks monitor_routine can be given
Callbacks == {"handle_alert_event", "raises"}

PlanIds == 1..MaxPlans

\* plan ids a caller can name: the stored ones and ids that are unknown
AllIds == 0..MaxPlans

ConnIds == 1..MaxConns

\* ------------------------------------------------------------------------
\* State
\* ------------------------------------------------------------------------
VARIABLES
    plan_storage,        \* Orchestrator._plan_storage: plan_id -> TripPlan
    active_monitors,     \* Orchestrator._active_monitors: plan_id -> task
    tasks,               \* the asyncio tasks running scout.monitor_routine
    mock_state,          \* MockEnvironmentManager._mock_state ({} = None)
    active_connections,  \* ConnectionManager.active_connections
    sockets,             \* the WebSocket of each client
    ext_call,            \* a handle_alert_event call made from outside a watchdog
    validation_results,  \* the ValidationResult returned for each plan
    confirm_errors,      \* the errors confirm_and_activate_plan has raised
    last_call,           \* what the latest handle_alert_event call did
    timeline,            \* MockEnvironmentManager._timeline
    replan_call,         \* a direct call of simulator.emergency_replan
    compare_call,        \* a direct call of scout.compare_states
    broadcast_call,      \* a ws_manager.broadcast call made by the test endpoint
    planning_call,       \* what the latest initiate_planning call did
    validate_call,       \* a direct call of validator.validate_constraints
    score_call           \* a direct call of validator.calculate_score

vars == <<plan_storage, active_monitors, tasks, mock_state, active_connections,
          sockets, ext_call, validation_results, confirm_errors, last_call,
          timeline, replan_call, compare_call, broadcast_call, planning_call,
          validate_call, score_call>>

pure_calls == <<replan_call, compare_call, validate_call, score_call>>

direct_calls == <<pure_calls, broadcast_call, planning_call>>

\* dict[k] = v
DictSet(d, k, v) == [x \in DOMAIN d \cup {k} |-> IF x = k THEN v ELSE d[x]]

EmptyDict == <<>>

NoMessage == [type |-> "none"]

\* the position of a ws_manager.broadcast call suspended in send_json:
\* idx elements of the connection list have been taken by the for loop
NoFrame == [plan_id |-> 0, message |-> NoMessage, idx |-> 0]

\* last_call: the severity and target of the call, whether the plan was in
\* storage, whether the call raised, and the (plan_id, type) of each
\* ws_manager.broadcast call it made
NoCall == [severity |-> "none", plan_id |-> 0, known |-> FALSE,
           raised |-> FALSE, broadcasts |-> <<>>]

\* no direct call of emergency_replan / compare_states is under examination
NoReplanCall == [called |-> FALSE]

NoCompareCall == [called |-> FALSE]

NoValidateCall == [called |-> FALSE]

NoScoreCall == [called |-> FALSE]

\* no initiate_planning call has been made
NoPlanningCall == [outcome |-> "none"]

\* the broadcast the test endpoint is running: where its for loop is
\* suspended, the connection list it started with, the connections it has
\* called send_json on, the clients that disconnected while it was
\* suspended, and whether it has returned
NoBroadcastCall == [frame |-> NoFrame, start |-> <<>>, sent |-> <<>>,
                    left |-> {}, done |-> FALSE]

\* ------------------------------------------------------------------------
\* Broadcast channel (api/routes.py, ConnectionManager)
\* ------------------------------------------------------------------------
Connections(plan_id) ==
    IF plan_id \in DOMAIN active_connections
    THEN active_connections[plan_id] ELSE <<>>

\* connection.send_json(message) on the connection the for loop just took.
\* The client remembers the updated_at stamp of the plan the last plan_updated
\* message carried.
Deliver(socks, c, message) ==
    [socks EXCEPT ![c].seen = IF message.type = "plan_updated"
                              THEN message.data.updated_plan.updated_at
                              ELSE @]

\* ------------------------------------------------------------------------
\* Orchestrator.handle_alert_event up to its first suspension point
\* ------------------------------------------------------------------------
\* variant: an unknown plan id is reported as an error
HandleUnknownPlanRaises(storage, alert) ==
    [storage |-> storage, broadcasts |-> <<>>, raised |-> TRUE]

\* `if not plan: ... return`
HandleUnknownPlan(storage, alert) ==
    [storage |-> storage, broadcasts |-> <<>>, raised |-> FALSE]

\* variant: every alert above INFO triggers the replanner
NeedsReplanAboveInfo(alert) == alert.severity # "INFO"

\* `if alert.severity == AlertSeverity.CRITICAL`
NeedsReplan(alert) == alert.severity = "CRITICAL"

\* variant: the updated plan is broadcast but not written back
StoreUpdatedPlanSkipped(storage, plan, updated_plan) == storage

\* `self._plan_storage[plan.plan_id] = updated_plan`
StoreUpdatedPlan(storage, plan, updated_plan) ==
    DictSet(storage, plan.plan_id, updated_plan)

PlanUpdatedMessage(alert, updated_plan) ==
    [type |-> "plan_updated",
     data |-> [alert |-> alert, updated_plan |-> updated_plan]]

AlertMessage(alert) == [type |-> "alert", data |-> alert]

\* the storage after the call and the ws_manager.broadcast calls it makes
HandleAlertEvent(storage, alert) ==
    IF alert.affected_plan_id \notin DOMAIN storage
    THEN HandleUnknownPlan(storage, alert)
    ELSE LET plan == storage[alert.affected_plan_id]
         IN IF NeedsReplan(alert)
            THEN LET updated_plan == EmergencyReplan(plan, alert)
                 IN [storage |-> StoreUpdatedPlan(storage, plan, updated_plan),
                     broadcasts |->
                        <<[plan_id |-> plan.plan_id,
                           message |-> PlanUpdatedMessage(alert, updated_plan)]>>,
                     raised |-> FALSE]
            ELSE IF alert.severity = "WARNING"
            THEN [storage |-> storage,
                  broadcasts |-> <<[plan_id |-> plan.plan_id,
                                    message |-> AlertMessage(alert)]>>,
                  raised |-> FALSE]
            ELSE [storage |-> storage, broadcasts |-> <<>>, raised |-> FALSE]

StampsInRange(storage) ==
    \A k \in DOMAIN storage : storage[k].updated_at <= MaxStamp

\* ws_manager.broadcast from its entry to the first send_json it awaits:
\* frame is where the for loop is suspended (NoFrame if broadcast returned
\* at once, or was not called), socks the sockets after the first send
FirstSend(result) ==
    LET call == IF result.broadcasts = <<>>
                THEN [plan_id |-> 0, message |-> NoMessage]
                ELSE result.broadcasts[1]
        conns == IF result.broadcasts = <<>> THEN <<>>
                 ELSE Connections(call.plan_id)
    IN IF conns = <<>>
       THEN [frame |-> NoFrame, socks |-> sockets]
       ELSE [frame |-> [plan_id |-> call.plan_id, message |-> call.message,
                        idx |-> 1],
             socks |-> Deliver(sockets, conns[1], call.message)]

\* the for loop of broadcast() resumes after a send_json and takes the next
\* connection of the list as the list is now; NoFrame = the loop has ended
ResumeBroadcast(frame) ==
    LET conns == Connections(frame.plan_id)
    IN IF frame.idx < Len(conns)
       THEN [frame |-> [frame EXCEPT !.idx = frame.idx + 1],
             socks |-> Deliver(sockets, conns[frame.idx + 1], frame.message)]
       ELSE [frame |-> NoFrame, socks |-> sockets]

BroadcastCalls(result) ==
    [i \in DOMAIN result.broadcasts |->
        [plan_id |-> result.broadcasts[i].plan_id,
         type |-> result.broadcasts[i].message.type]]

CallRecord(alert, result) ==
    [severity |-> alert.severity, plan_id |-> alert.affected_plan_id,
     known |-> alert.affected_plan_id \in DOMAIN plan_storage,
     raised |-> result.raised, broadcasts |-> BroadcastCalls(result)]

\* ------------------------------------------------------------------------
\* Environment provider (agents/scout.py get_realtime_state,
\* services/mock_manager.py)
\* ------------------------------------------------------------------------
\* _get_timeline_state: the loop unpacks every event as a 3-tuple, keeps the
\* latest one that is due and stops at the first one that is not; an event
\* of another arity makes the unpacking raise ValueError.  {} is None.
RECURSIVE TimelineScan(_, _)
TimelineScan(events, current_event) ==
    IF events = <<>> THEN [raised |-> FALSE, state |-> current_event]
    ELSE LET ev == Head(events)
         IN IF ev.arity # 3 THEN [raised |-> TRUE, state |-> {}]
            ELSE IF ev.due
            THEN TimelineScan(Tail(events),
                              {EnvironmentState(ev.weather_code, 2000,
                                                ev.traffic_index)})
            ELSE [raised |-> FALSE, state |-> current_event]

\* get_override: the timeline first, then the global override
GetOverride ==
    LET tl == IF timeline # <<>> THEN TimelineScan(timeline, {})
              ELSE [raised |-> FALSE, state |-> {}]
    IN IF tl.raised \/ tl.state # {} THEN tl
       ELSE [raised |-> FALSE, state |-> mock_state]

\* get_realtime_state: the override is read outside the try block, so an
\* error of get_override leaves the call as an exception (raised = TRUE);
\* the production branch always returns the default snapshot
GetRealtimeState ==
    LET override == GetOverride
    IN IF override.raised THEN [raised |-> TRUE, state |-> DefaultState]
       ELSE [raised |-> FALSE,
             state |-> IF override.state # {}
                       THEN CHOOSE st \in override.state : TRUE
                       ELSE DefaultState]

SetOverride(st) ==
    /\ mock_state # {st}
    /\ mock_state' = {st}
    /\ UNCHANGED <<timeline, direct_calls, plan_storage, active_monitors, tasks, active_connections,
                   sockets, ext_call, validation_results, confirm_errors,
                   last_call>>

\* set_timeline(events)
SetTimeline(events) ==
    /\ timeline # events
    /\ timeline' = events
    /\ UNCHANGED <<direct_calls, plan_storage, active_monitors, tasks,
                   mock_state, active_connections, sockets, ext_call,
                   validation_results, confirm_errors, last_call>>

ClearOverride ==
    /\ mock_state # {} \/ timeline # <<>>
    /\ mock_state' = {}
    /\ timeline' = <<>>
    /\ UNCHANGED <<direct_calls, plan_storage, active_monitors, tasks, active_connections,
                   sockets, ext_call, validation_results, confirm_errors,
                   last_call>>

\* ------------------------------------------------------------------------
\* Orchestrator (services/orchestrator.py)
\* ------------------------------------------------------------------------
\* simulator.run: the oracle's draft with a fresh plan_id and status DRAFT
NewPlanId == Cardinality(DOMAIN plan_storage) + 1

SimulatorRun(draft) == [draft EXCEPT !.plan_id = NewPlanId, !.status = "draft"]

\* `self._plan_storage[plan.plan_id] = plan`
StorePlan(storage, plan) == DictSet(storage, plan.plan_id, plan)

\* variant: warnings block VERIFIED too
PostProcessStrict(plan, validation_result) ==
    [plan EXCEPT !.status = IF validation_result.is_valid
                               /\ validation_result.warnings = <<>>
                            THEN "verified" ELSE "draft"]

\* `if validation_result.is_valid: ... VERIFIED else: ... DRAFT`
PostProcess(plan, validation_result) ==
    [plan EXCEPT !.status = IF validation_result.is_valid
                            THEN "verified" ELSE "draft"]

\* the exception simulator.run raises on the oracle's output: json.loads
\* fails (`except json.JSONDecodeError: raise ValueError`), or indexing the
\* parsed value or TripPlan(**data) fails (`except Exception: raise
\* RuntimeError`); "none" when it returns a plan
GenerationError(output) ==
    IF output.kind = "draft" THEN "none"
    ELSE IF output.kind = "not_json" THEN "ValueError"
    ELSE "RuntimeError"

\* variant: validation has run by the time the error reaches the caller
PlanningFailedAfterValidation(storage, results, exc) ==
    [storage |-> storage, results |-> results,
     call |-> [outcome |-> exc, validated |-> TRUE]]

\* initiate_planning has no handler around `await simulator.run(...)`: the
\* exception leaves it before validate_constraints and before the store
PlanningFailed(storage, results, exc) ==
    [storage |-> storage, results |-> results,
     call |-> [outcome |-> exc, validated |-> FALSE]]

InitiatePlanning(output, profile) ==
    /\ IF GenerationError(output) # "none"
       THEN LET failed == PlanningFailed(plan_storage, validation_results,
                                         GenerationError(output))
            IN /\ plan_storage' = failed.storage
               /\ validation_results' = failed.results
               /\ planning_call' = failed.call
       ELSE /\ Cardinality(DOMAIN plan_storage) < MaxPlans
            /\ LET plan == SimulatorRun(output.draft)
                   validation_result == ValidateConstraints(plan, profile)
               IN /\ plan_storage' =
                        StorePlan(plan_storage,
                                  PostProcess(plan, validation_result))
                  /\ validation_results' =
                        DictSet(validation_results, plan.plan_id,
                                validation_result)
            /\ planning_call' = [outcome |-> "stored", validated |-> TRUE]
    /\ UNCHANGED <<timeline, pure_calls, broadcast_call, active_monitors,
                   tasks, mock_state, active_connections,
                   sockets, ext_call, confirm_errors, last_call>>

\* variant: the status check is missing
CanActivateAny(plan) == TRUE

\* `if plan.status != PlanStatus.VERIFIED: raise`
CanActivate(plan) == plan.status = "verified"

\* both failures are `raise ValueError(...)`, which confirm_plan in
\* api/routes.py turns into HTTPException(status_code=404)
ConfirmError(cause) == [cause |-> cause, exc |-> "ValueError", http |-> 404]

\* the coroutine scout.monitor_routine(plan, interval, callback) as a task.
\* pc: "start" (created, not yet run), "fetch", "broadcast" (inside the
\* callback's send_json), "sleep", "done" (left the loop on cancellation),
\* "failed" (an exception left the coroutine).  cancelled_at is the pc at
\* which Task.cancel() reached it.
MonitorRoutine(plan_id, callback) ==
    [plan_id |-> plan_id, callback |-> callback, pc |-> "start",
     last_state |-> DefaultState, current_state |-> DefaultState,
     frame |-> NoFrame, cancelled_at |-> "none"]

\* `callback=self.handle_alert_event`
NewTask(plan_id) == MonitorRoutine(plan_id, "handle_alert_event")

\* variant: the status is written before the check that raises
ConfirmRejectedAfterWrite(storage, plan_id) ==
    [storage EXCEPT ![plan_id].status = "active"]

\* the storage as a rejected call leaves it: both `raise ValueError`
\* statements come before the first write of the method
ConfirmRejected(storage, plan_id) == storage

ConfirmAndActivatePlan(plan_id) ==
    IF plan_id \notin DOMAIN plan_storage
    THEN /\ ConfirmError("not_found") \notin confirm_errors
         /\ confirm_errors' = confirm_errors \cup {ConfirmError("not_found")}
         /\ UNCHANGED <<timeline, direct_calls, plan_storage, active_monitors, tasks, mock_state,
                        active_connections, sockets, ext_call,
                        validation_results, last_call>>
    ELSE IF ~CanActivate(plan_storage[plan_id])
    THEN /\ ConfirmError("not_verified") \notin confirm_errors
         /\ confirm_errors' = confirm_errors \cup {ConfirmError("not_verified")}
         /\ plan_storage' = ConfirmRejected(plan_storage, plan_id)
         /\ UNCHANGED <<timeline, direct_calls, active_monitors, tasks, mock_state,
                        active_connections, sockets, ext_call,
                        validation_results, last_call>>
    ELSE /\ Len(tasks) < MaxTasks
         /\ plan_storage[plan_id].updated_at < MaxStamp
         /\ plan_storage' =
               [plan_storage EXCEPT ![plan_id].status = "active",
                                    ![plan_id].updated_at = @ + 1]
         /\ tasks' = Append(tasks, NewTask(plan_id))
         /\ active_monitors' = DictSet(active_monitors, plan_id, Len(tasks) + 1)
         /\ UNCHANGED <<timeline, direct_calls, mock_state, active_connections, sockets, ext_call,
                        validation_results, confirm_errors, last_call>>

\* handle_alert_event called by some caller other than a watchdog
ExternalAlerts ==
    { AlertSignal("weather", sev, pid, StormState) :
        sev \in AlertSeverity, pid \in AllIds }

ExternalAlert(alert) ==
    /\ ext_call = NoFrame
    /\ LET result == HandleAlertEvent(plan_storage, alert)
           sent == FirstSend(result)
       IN /\ StampsInRange(result.storage)
          /\ last_call' = CallRecord(alert, result)
          /\ plan_storage' = result.storage
          /\ ext_call' = sent.frame
          /\ sockets' = sent.socks
    /\ UNCHANGED <<timeline, direct_calls, active_monitors, tasks, mock_state, active_connections,
                   validation_results, confirm_errors>>

ExternalResume ==
    /\ ext_call # NoFrame
    /\ LET next == ResumeBroadcast(ext_call)
       IN /\ ext_call' = next.frame
          /\ sockets' = next.socks
    /\ UNCHANGED <<timeline, direct_calls, plan_storage, active_monitors, tasks, mock_state,
                   active_connections, validation_results, confirm_errors,
                   last_call>>

\* ------------------------------------------------------------------------
\* Watchdog loop (agents/scout.py monitor_routine)
\* ------------------------------------------------------------------------
\* `await callback(alert)`: the orchestrator passes handle_alert_event; any
\* other callable may raise, which is what "raises" stands for
InvokeCallback(callback, storage, alert) ==
    IF callback = "handle_alert_event" THEN HandleAlertEvent(storage, alert)
    ELSE [storage |-> storage, broadcasts |-> <<>>, raised |-> TRUE]

Alive(t) == tasks[t].pc \notin {"done", "failed"}

\* `last_state = await self.get_realtime_state(location)` before the loop,
\* outside the try block: an exception ends the task.  current_state is not
\* bound yet in the code; here it starts as the baseline.
\* variant: the loop starts from the default snapshot
InitialBaselineDefault(fetch) == DefaultState

\* `last_state = await self.get_realtime_state(location)`
InitialBaseline(fetch) == fetch.state

MonitorStart(t) ==
    /\ tasks[t].pc = "start"
    /\ LET fetch == GetRealtimeState
       IN tasks' = IF fetch.raised
                   THEN [tasks EXCEPT ![t].pc = "failed"]
                   ELSE [tasks EXCEPT ![t].last_state = InitialBaseline(fetch),
                                      ![t].current_state = fetch.state,
                                      ![t].pc = "fetch"]
    /\ UNCHANGED <<timeline, direct_calls, plan_storage, active_monitors,
                   mock_state, active_connections, sockets, ext_call,
                   validation_results, confirm_errors, last_call>>

\* variant: the signal is forwarded as compare_states returned it
StampAlertSkipped(alert, task) == alert

\* `alert.affected_plan_id = plan.plan_id`
StampAlert(alert, task) == [alert EXCEPT !.affected_plan_id = task.plan_id]

\* one iteration from the fetch to the next suspension point
MonitorPoll(t) ==
    /\ tasks[t].pc = "fetch"
    /\ LET fetch == GetRealtimeState
           current_state == fetch.state
           signal == CompareStates(tasks[t].last_state, current_state)
       IN IF fetch.raised
          THEN \* `except Exception`: sleep, then the next iteration
               /\ tasks' = [tasks EXCEPT ![t].pc = "sleep"]
               /\ UNCHANGED <<plan_storage, sockets, last_call>>
          ELSE IF signal = <<>>
          THEN /\ tasks' = [tasks EXCEPT ![t].last_state = current_state,
                                         ![t].current_state = current_state,
                                         ![t].pc = "sleep"]
               /\ UNCHANGED <<plan_storage, sockets, last_call>>
          ELSE LET alert == StampAlert(signal[1], tasks[t])
                   result == InvokeCallback(tasks[t].callback, plan_storage, alert)
                   sent == FirstSend(result)
               IN /\ StampsInRange(result.storage)
                  /\ plan_storage' = result.storage
                  /\ last_call' = IF tasks[t].callback = "handle_alert_event"
                                  THEN CallRecord(alert, result)
                                  ELSE last_call
                  /\ sockets' = sent.socks
                  /\ tasks' =
                       IF result.raised
                       THEN \* `except Exception`: line 296 is skipped
                            [tasks EXCEPT ![t].current_state = current_state,
                                          ![t].pc = "sleep"]
                       ELSE IF sent.frame # NoFrame
                       THEN [tasks EXCEPT ![t].current_state = current_state,
                                          ![t].frame = sent.frame,
                                          ![t].pc = "broadcast"]
                       ELSE [tasks EXCEPT ![t].last_state = current_state,
                                          ![t].current_state = current_state,
                                          ![t].pc = "sleep"]
    /\ UNCHANGED <<timeline, direct_calls, active_monitors, mock_state,
                   active_connections, ext_call, validation_results,
                   confirm_errors>>

\* the callback's broadcast resumes; when it returns the baseline is updated
MonitorBroadcast(t) ==
    /\ tasks[t].pc = "broadcast"
    /\ LET next == ResumeBroadcast(tasks[t].frame)
       IN /\ sockets' = next.socks
          /\ tasks' =
               IF next.frame = NoFrame
               THEN [tasks EXCEPT ![t].frame = NoFrame,
                                  ![t].last_state = tasks[t].current_state,
                                  ![t].pc = "sleep"]
               ELSE [tasks EXCEPT ![t].frame = next.frame]
    /\ UNCHANGED <<timeline, direct_calls, plan_storage, active_monitors, mock_state,
                   active_connections, ext_call, validation_results,
                   confirm_errors, last_call>>

\* `await asyncio.sleep(interval)` returns
MonitorWake(t) ==
    /\ tasks[t].pc = "sleep"
    /\ tasks' = [tasks EXCEPT ![t].pc = "fetch"]
    /\ UNCHANGED <<timeline, direct_calls, plan_storage, active_monitors, mock_state,
                   active_connections, sockets, ext_call, validation_results,
                   confirm_errors, last_call>>

\* variant: the CancelledError is swallowed where it is raised (an
\* `except Exception` that catches it) and the loop goes on
OnCancelledSwallowed(task) == [task EXCEPT !.cancelled_at = task.pc]

\* CancelledError raised at the await the task is suspended in: from
\* send_json it passes `except Exception` of broadcast() and leaves the
\* callback, from the sleep of the try block it reaches
\* `except asyncio.CancelledError: break`, from the sleep of the except
\* block and before the first step it leaves the coroutine
OnCancelled(task) ==
    [task EXCEPT !.pc = "done", !.frame = NoFrame, !.cancelled_at = task.pc]

\* Task.cancel() on a watchdog task (the handle kept in _active_monitors,
\* or the event loop cancelling what is still running at shutdown)
CancelTask(t) ==
    /\ Alive(t)
    /\ tasks[t].cancelled_at = "none"
    /\ tasks' = [tasks EXCEPT ![t] = OnCancelled(tasks[t])]
    /\ UNCHANGED <<timeline, direct_calls, plan_storage, active_monitors,
                   mock_state, active_connections, sockets, ext_call,
                   validation_results, confirm_errors, last_call>>

\* ------------------------------------------------------------------------
\* WebSocket clients (api/routes.py websocket_alerts)
\* ------------------------------------------------------------------------
NewSocket == [state |-> "new", plan_id |-> 0, seen |-> 0]

Connect(c, plan_id) ==
    /\ sockets[c].state = "new"
    /\ sockets' = [sockets EXCEPT ![c].state = "open", ![c].plan_id = plan_id]
    /\ active_connections' =
          DictSet(active_connections, plan_id, Append(Connections(plan_id), c))
    /\ UNCHANGED <<timeline, direct_calls, plan_storage, active_monitors, tasks, mock_state, ext_call,
                   validation_results, confirm_errors, last_call>>

Disconnect(c) ==
    /\ sockets[c].state = "open"
    /\ sockets' = [sockets EXCEPT ![c] = [NewSocket EXCEPT !.state = "closed"]]
    /\ active_connections' =
          [active_connections EXCEPT
             ![sockets[c].plan_id] = ListRemove(@, c)]
    /\ broadcast_call' =
          IF /\ broadcast_call.frame # NoFrame
             /\ broadcast_call.frame.plan_id = sockets[c].plan_id
          THEN [broadcast_call EXCEPT !.left = @ \cup {c}]
          ELSE broadcast_call
    /\ UNCHANGED <<timeline, pure_calls, planning_call, plan_storage,
                   active_monitors, tasks, mock_state, ext_call,
                   validation_results, confirm_errors, last_call>>

\* ------------------------------------------------------------------------
\* Test endpoint (api/routes.py trigger_test_alert)
\* ------------------------------------------------------------------------
\* the alert_data bodies posted to /test/mock-alert/{plan_id}
TestAlerts ==
    { [severity |-> sev, message |-> "Test rain alert",
       change_type |-> "weather"] : sev \in {"WARNING", "CRITICAL"} }

\* trigger_test_alert up to the first send_json of the broadcast it awaits
TriggerTestAlert(plan_id, alert_data) ==
    /\ broadcast_call.frame = NoFrame
    /\ LET result == [broadcasts |->
                         <<[plan_id |-> plan_id,
                            message |-> [type |-> "alert",
                                         data |-> alert_data]]>>]
           conns == Connections(plan_id)
           first == FirstSend(result)
       IN /\ sockets' = first.socks
          /\ broadcast_call' =
                [frame |-> first.frame, start |-> conns,
                 sent |-> IF conns = <<>> THEN <<>> ELSE <<conns[1]>>,
                 left |-> {}, done |-> first.frame = NoFrame]
    /\ UNCHANGED <<timeline, pure_calls, planning_call, plan_storage,
                   active_monitors, tasks, mock_state, active_connections,
                   ext_call, validation_results, confirm_errors, last_call>>

\* the broadcast of the test endpoint resumes after a send_json
TestAlertResume ==
    /\ broadcast_call.frame # NoFrame
    /\ LET frame == broadcast_call.frame
           conns == Connections(frame.plan_id)
           next == ResumeBroadcast(frame)
       IN /\ sockets' = next.socks
          /\ broadcast_call' =
                [broadcast_call EXCEPT
                   !.frame = next.frame,
                   !.sent = IF next.frame = NoFrame THEN @
                            ELSE Append(@, conns[frame.idx + 1]),
                   !.done = next.frame = NoFrame]
    /\ UNCHANGED <<timeline, pure_calls, planning_call, plan_storage,
                   active_monitors, tasks, mock_state, active_connections,
                   ext_call, validation_results, confirm_errors, last_call>>

\* ------------------------------------------------------------------------
\* Specification
\* ------------------------------------------------------------------------
Init ==
    /\ plan_storage = EmptyDict
    /\ active_monitors = EmptyDict
    /\ tasks = <<>>
    /\ mock_state = {}
    /\ active_connections = EmptyDict
    /\ sockets = [c \in ConnIds |-> NewSocket]
    /\ ext_call = NoFrame
    /\ validation_results = EmptyDict
    /\ confirm_errors = {}
    /\ last_call = NoCall
    /\ timeline = <<>>
    /\ broadcast_call = NoBroadcastCall
    /\ planning_call = NoPlanningCall
    /\ validate_call = NoValidateCall
    /\ score_call = NoScoreCall
    /\ replan_call = NoReplanCall
    /\ compare_call = NoCompareCall

\* every handler runs to completion before the next one starts while no
\* client is connected: broadcast() returns at `plan_id not in
\* self.active_connections`.  The oracle hands back well-formed drafts
\* here; its failures are the subject of SpecPlanning.
Next ==
    \/ \E draft \in Drafts, profile \in Profiles :
          InitiatePlanning([kind |-> "draft", draft |-> draft], profile)
    \/ \E plan_id \in AllIds : ConfirmAndActivatePlan(plan_id)
    \/ \E alert \in ExternalAlerts : ExternalAlert(alert)
    \/ \E t \in DOMAIN tasks : MonitorStart(t)
    \/ \E t \in DOMAIN tasks : MonitorPoll(t)
    \/ \E t \in DOMAIN tasks : MonitorWake(t)
    \/ \E st \in MockStates : SetOverride(st)
    \/ ClearOverride

Spec == Init /\ [][Next]_vars

\* the drafts of the planning request that precedes InitChannel: one that
\* validates and one that does not
ChannelDrafts ==
    { TripPlan(0, <<Hike, Picnic, Concert>>, <<Kayak, Cinema, Gallery>>, LlmReasoning),
      TripPlan(0, <<Hike, Dinner>>, <<Cinema>>, LlmReasoning) }

\* the system with WebSocket clients, after one planning request
InitChannel ==
    /\ \E draft \in ChannelDrafts :
          LET plan == [draft EXCEPT !.plan_id = 1, !.status = "draft"]
              profile == DefaultProfile
              validation_result == ValidateConstraints(plan, profile)
          IN /\ plan_storage = StorePlan(EmptyDict,
                                         PostProcess(plan, validation_result))
             /\ validation_results = DictSet(EmptyDict, 1, validation_result)
    /\ active_monitors = EmptyDict
    /\ tasks = <<>>
    /\ mock_state = {}
    /\ active_connections = EmptyDict
    /\ sockets = [c \in ConnIds |-> NewSocket]
    /\ ext_call = NoFrame
    /\ confirm_errors = {}
    /\ last_call = NoCall
    /\ timeline = <<>>
    /\ broadcast_call = NoBroadcastCall
    /\ planning_call = NoPlanningCall
    /\ validate_call = NoValidateCall
    /\ score_call = NoScoreCall
    /\ replan_call = NoReplanCall
    /\ compare_call = NoCompareCall

NextChannel ==
    \/ \E plan_id \in AllIds : ConfirmAndActivatePlan(plan_id)
    \/ \E alert \in ExternalAlerts : ExternalAlert(alert)
    \/ ExternalResume
    \/ \E t \in DOMAIN tasks : MonitorStart(t)
    \/ \E t \in DOMAIN tasks : MonitorPoll(t)
    \/ \E t \in DOMAIN tasks : MonitorBroadcast(t)
    \/ \E t \in DOMAIN tasks : MonitorWake(t)
    \/ SetOverride(StormState)
    \/ ClearOverride
    \/ \E c \in ConnIds, plan_id \in AllIds : Connect(c, plan_id)
    \/ \E c \in ConnIds : Disconnect(c)

SpecChannel == InitChannel /\ [][NextChannel]_vars

\* the watchdog loop on its own: monitor_routine running on one ACTIVE plan
\* with either callback, the environment overrides, task cancellation and
\* the subscribers of the plan
InitWatchdog ==
    /\ \E callback \in Callbacks :
          tasks = <<MonitorRoutine(1, callback)>>
    /\ LET draft == TripPlan(1, <<Hike, Picnic, Concert>>,
                             <<Kayak, Cinema, Gallery>>, LlmReasoning)
           validation_result == ValidateConstraints(draft, DefaultProfile)
       IN /\ plan_storage =
                StorePlan(EmptyDict, [draft EXCEPT !.status = "active",
                                                   !.updated_at = 1])
          /\ validation_results = DictSet(EmptyDict, 1, validation_result)
    /\ active_monitors = DictSet(EmptyDict, 1, 1)
    /\ mock_state = {}
    /\ active_connections = EmptyDict
    /\ sockets = [c \in ConnIds |-> NewSocket]
    /\ ext_call = NoFrame
    /\ confirm_errors = {}
    /\ last_call = NoCall
    /\ timeline = <<>>
    /\ broadcast_call = NoBroadcastCall
    /\ planning_call = NoPlanningCall
    /\ validate_call = NoValidateCall
    /\ score_call = NoScoreCall
    /\ replan_call = NoReplanCall
    /\ compare_call = NoCompareCall

NextWatchdog ==
    \/ \E t \in DOMAIN tasks : MonitorStart(t)
    \/ \E t \in DOMAIN tasks : MonitorPoll(t)
    \/ \E t \in DOMAIN tasks : MonitorBroadcast(t)
    \/ \E t \in DOMAIN tasks : MonitorWake(t)
    \/ \E t \in DOMAIN tasks : CancelTask(t)
    \/ \E st \in MockStates : SetOverride(st)
    \/ \E events \in Timelines : SetTimeline(events)
    \/ ClearOverride
    \/ \E c \in ConnIds : Connect(c, 1)
    \/ \E c \in ConnIds : Disconnect(c)

SpecWatchdog == InitWatchdog /\ [][NextWatchdog]_vars

\* two ACTIVE plans, each with its own watchdog, and clients that subscribe
\* to either of them
FleetPlans ==
    <<TripPlan(1, <<Hike, Picnic, Concert>>, <<Kayak, Cinema, Gallery>>,
               LlmReasoning),
      TripPlan(2, <<Hike, Museum>>, <<Cinema>>, LlmReasoning)>>

InitFleet ==
    /\ tasks = [i \in DOMAIN FleetPlans |-> NewTask(FleetPlans[i].plan_id)]
    /\ plan_storage =
          [i \in DOMAIN FleetPlans |->
              [FleetPlans[i] EXCEPT !.status = "active", !.updated_at = 1]]
    /\ validation_results =
          [i \in DOMAIN FleetPlans |->
              ValidateConstraints(FleetPlans[i], DefaultProfile)]
    /\ active_monitors = [i \in DOMAIN FleetPlans |-> i]
    /\ mock_state = {}
    /\ active_connections = EmptyDict
    /\ sockets = [c \in ConnIds |-> NewSocket]
    /\ ext_call = NoFrame
    /\ confirm_errors = {}
    /\ last_call = NoCall
    /\ timeline = <<>>
    /\ broadcast_call = NoBroadcastCall
    /\ planning_call = NoPlanningCall
    /\ validate_call = NoValidateCall
    /\ score_call = NoScoreCall
    /\ replan_call = NoReplanCall
    /\ compare_call = NoCompareCall

NextFleet ==
    \/ \E t \in DOMAIN tasks : MonitorStart(t)
    \/ \E t \in DOMAIN tasks : MonitorPoll(t)
    \/ \E t \in DOMAIN tasks : MonitorBroadcast(t)
    \/ \E t \in DOMAIN tasks : MonitorWake(t)
    \/ \E st \in MockStates : SetOverride(st)
    \/ ClearOverride
    \/ \E c \in ConnIds, i \in DOMAIN FleetPlans :
          Connect(c, FleetPlans[i].plan_id)
    \/ \E c \in ConnIds : Disconnect(c)

SpecFleet == InitFleet /\ [][NextFleet]_vars

\* the watchdog of one ACTIVE plan under a fair event loop: the task is never
\* cancelled, every step it is ready for is eventually run (the fetch
\* returns, send_json returns, the sleep ends), the weather turns to a storm
\* at some moment and stays, and clients come and go
InitLive ==
    /\ tasks = <<NewTask(1)>>
    /\ LET draft == TripPlan(1, <<Hike, Picnic, Concert>>,
                             <<Kayak, Cinema, Gallery>>, LlmReasoning)
       IN /\ plan_storage =
                StorePlan(EmptyDict, [draft EXCEPT !.status = "active",
                                                   !.updated_at = 1])
          /\ validation_results =
                DictSet(EmptyDict, 1, ValidateConstraints(draft, DefaultProfile))
    /\ active_monitors = DictSet(EmptyDict, 1, 1)
    /\ mock_state = {}
    /\ active_connections = EmptyDict
    /\ sockets = [c \in ConnIds |-> NewSocket]
    /\ ext_call = NoFrame
    /\ confirm_errors = {}
    /\ last_call = NoCall
    /\ timeline = <<>>
    /\ broadcast_call = NoBroadcastCall
    /\ planning_call = NoPlanningCall
    /\ validate_call = NoValidateCall
    /\ score_call = NoScoreCall
    /\ replan_call = NoReplanCall
    /\ compare_call = NoCompareCall

NextLive ==
    \/ \E t \in DOMAIN tasks : MonitorStart(t)
    \/ \E t \in DOMAIN tasks : MonitorPoll(t)
    \/ \E t \in DOMAIN tasks : MonitorBroadcast(t)
    \/ \E t \in DOMAIN tasks : MonitorWake(t)
    \/ SetOverride(StormState)
    \/ \E c \in ConnIds : Connect(c, 1)
    \/ \E c \in ConnIds : Disconnect(c)

SpecLive ==
    /\ InitLive
    /\ [][NextLive]_vars
    /\ WF_vars(\E t \in DOMAIN tasks : MonitorStart(t))
    /\ WF_vars(\E t \in DOMAIN tasks : MonitorPoll(t))
    /\ WF_vars(\E t \in DOMAIN tasks : MonitorBroadcast(t))
    /\ WF_vars(\E t \in DOMAIN tasks : MonitorWake(t))

\* one stored ACTIVE plan that receives alert after alert through
\* handle_alert_event, with the subscribers of the plan coming and going.
\* Hike and Concert are OUTDOOR with risk above 0.6, Sauna is INDOOR with a
\* high risk score.
AlertedPlans ==
    { [TripPlan(1, itinerary, alts, LlmReasoning) EXCEPT !.status = "active"] :
        itinerary \in SeqsUpTo({Hike, Concert, Sauna, Museum}, MaxLen),
        alts \in {<<>>, <<Kayak>>, <<Kayak, Cinema, Gallery>>} }

InitAlerts ==
    /\ \E plan \in AlertedPlans : plan_storage = StorePlan(EmptyDict, plan)
    /\ active_monitors = EmptyDict
    /\ tasks = <<>>
    /\ mock_state = {}
    /\ active_connections = EmptyDict
    /\ sockets = [c \in ConnIds |-> NewSocket]
    /\ ext_call = NoFrame
    /\ validation_results = EmptyDict
    /\ confirm_errors = {}
    /\ last_call = NoCall
    /\ timeline = <<>>
    /\ broadcast_call = NoBroadcastCall
    /\ planning_call = NoPlanningCall
    /\ validate_call = NoValidateCall
    /\ score_call = NoScoreCall
    /\ replan_call = NoReplanCall
    /\ compare_call = NoCompareCall

NextAlerts ==
    \/ \E alert \in ExternalAlerts : ExternalAlert(alert)
    \/ ExternalResume
    \/ \E c \in ConnIds : Connect(c, 1)
    \/ \E c \in ConnIds : Disconnect(c)

SpecAlerts == InitAlerts /\ [][NextAlerts]_vars

\* a caller hands one plan and one alert to simulator.emergency_replan
EmergencyReplanCall(alert) ==
    /\ ~replan_call.called
    /\ replan_call' =
          [called |-> TRUE, original_plan |-> replan_call.original_plan,
           alert |-> alert,
           updated_plan |-> EmergencyReplan(replan_call.original_plan, alert)]
    /\ UNCHANGED <<plan_storage, active_monitors, tasks, mock_state,
                   active_connections, sockets, ext_call, validation_results,
                   confirm_errors, last_call, timeline, compare_call,
                   broadcast_call, planning_call, validate_call,
                   score_call>>

InitReplan ==
    /\ \E plan \in ReplanPlans :
          replan_call = [called |-> FALSE, original_plan |-> plan]
    /\ plan_storage = EmptyDict
    /\ active_monitors = EmptyDict
    /\ tasks = <<>>
    /\ mock_state = {}
    /\ active_connections = EmptyDict
    /\ sockets = [c \in ConnIds |-> NewSocket]
    /\ ext_call = NoFrame
    /\ validation_results = EmptyDict
    /\ confirm_errors = {}
    /\ last_call = NoCall
    /\ timeline = <<>>
    /\ broadcast_call = NoBroadcastCall
    /\ planning_call = NoPlanningCall
    /\ validate_call = NoValidateCall
    /\ score_call = NoScoreCall
    /\ compare_call = NoCompareCall

NextReplan == \E alert \in ReplanAlerts : EmergencyReplanCall(alert)

SpecReplan == InitReplan /\ [][NextReplan]_vars

\* a caller hands a plan and a profile to validator.validate_constraints
ValidateConstraintsCall ==
    /\ ~validate_call.called
    /\ validate_call' =
          [called |-> TRUE, plan |-> validate_call.plan,
           profile |-> validate_call.profile,
           result |-> ValidateConstraints(validate_call.plan,
                                          validate_call.profile)]
    /\ UNCHANGED <<plan_storage, active_monitors, tasks, mock_state,
                   active_connections, sockets, ext_call, validation_results,
                   confirm_errors, last_call, timeline, replan_call,
                   compare_call, broadcast_call, planning_call, score_call>>

InitValidator ==
    /\ \E plan \in ValidatorPlans, profile \in ValidatorProfiles :
          validate_call = [called |-> FALSE, plan |-> plan, profile |-> profile]
    /\ score_call = NoScoreCall
    /\ plan_storage = EmptyDict
    /\ active_monitors = EmptyDict
    /\ tasks = <<>>
    /\ mock_state = {}
    /\ active_connections = EmptyDict
    /\ sockets = [c \in ConnIds |-> NewSocket]
    /\ ext_call = NoFrame
    /\ validation_results = EmptyDict
    /\ confirm_errors = {}
    /\ last_call = NoCall
    /\ timeline = <<>>
    /\ broadcast_call = NoBroadcastCall
    /\ planning_call = NoPlanningCall
    /\ replan_call = NoReplanCall
    /\ compare_call = NoCompareCall

NextValidator == ValidateConstraintsCall

SpecValidator == InitValidator /\ [][NextValidator]_vars

\* the plans and preference lists handed to calculate_score
ScoredPlans ==
    { TripPlan(1, itinerary, alts, LlmReasoning) :
        itinerary \in SeqsUpTo({Hike, Opera, Picnic, Dinner, Stroll},
                               MaxLen + 1),
        alts \in {<<>>, <<Cinema>>, <<Kayak, Cinema, Gallery>>} }

ScoredPreferences == {<<>>, <<"hike", "opera">>, <<"art">>}

\* a caller hands a plan and a preference list to validator.calculate_score
CalculateScoreCall ==
    /\ ~score_call.called
    /\ score_call' =
          [called |-> TRUE, plan |-> score_call.plan,
           preferences |-> score_call.preferences,
           result |-> CalculateScore(score_call.plan, score_call.preferences)]
    /\ UNCHANGED <<plan_storage, active_monitors, tasks, mock_state,
                   active_connections, sockets, ext_call, validation_results,
                   confirm_errors, last_call, timeline, replan_call,
                   compare_call, broadcast_call, planning_call, validate_call>>

InitScore ==
    /\ \E plan \in ScoredPlans, preferences \in ScoredPreferences :
          score_call = [called |-> FALSE, plan |-> plan,
                        preferences |-> preferences]
    /\ plan_storage = EmptyDict
    /\ active_monitors = EmptyDict
    /\ tasks = <<>>
    /\ mock_state = {}
    /\ active_connections = EmptyDict
    /\ sockets = [c \in ConnIds |-> NewSocket]
    /\ ext_call = NoFrame
    /\ validation_results = EmptyDict
    /\ confirm_errors = {}
    /\ last_call = NoCall
    /\ timeline = <<>>
    /\ broadcast_call = NoBroadcastCall
    /\ planning_call = NoPlanningCall
    /\ validate_call = NoValidateCall
    /\ replan_call = NoReplanCall
    /\ compare_call = NoCompareCall

NextScore == CalculateScoreCall

SpecScore == InitScore /\ [][NextScore]_vars

\* a caller hands two snapshots to scout.compare_states
CompareStatesCall ==
    /\ ~compare_call.called
    /\ compare_call' =
          [called |-> TRUE, last |-> compare_call.last,
           current |-> compare_call.current,
           result |-> CompareStates(compare_call.last, compare_call.current)]
    /\ UNCHANGED <<plan_storage, active_monitors, tasks, mock_state,
                   active_connections, sockets, ext_call, validation_results,
                   confirm_errors, last_call, timeline, replan_call,
                   broadcast_call, planning_call, validate_call,
                   score_call>>

InitDetector ==
    /\ \E last \in LastSnapshots, current \in CurrentSnapshots :
          compare_call = [called |-> FALSE, last |-> last, current |-> current]
    /\ plan_storage = EmptyDict
    /\ active_monitors = EmptyDict
    /\ tasks = <<>>
    /\ mock_state = {}
    /\ active_connections = EmptyDict
    /\ sockets = [c \in ConnIds |-> NewSocket]
    /\ ext_call = NoFrame
    /\ validation_results = EmptyDict
    /\ confirm_errors = {}
    /\ last_call = NoCall
    /\ timeline = <<>>
    /\ broadcast_call = NoBroadcastCall
    /\ planning_call = NoPlanningCall
    /\ validate_call = NoValidateCall
    /\ score_call = NoScoreCall
    /\ replan_call = NoReplanCall

NextDetector == CompareStatesCall

SpecDetector == InitDetector /\ [][NextDetector]_vars

\* planning requests against an oracle that can fail, and confirmations
InitPlanning == Init

NextPlanning ==
    \/ \E output \in OracleOutputs, profile \in Profiles :
          InitiatePlanning(output, profile)
    \/ \E plan_id \in AllIds : ConfirmAndActivatePlan(plan_id)
    \/ \E st \in MockStates : SetOverride(st)
    \/ ClearOverride

SpecPlanning == InitPlanning /\ [][NextPlanning]_vars

\* the broadcast channel on its own: clients come and go while the test
\* endpoint broadcasts
InitBroadcast == Init

NextBroadcast ==
    \/ \E plan_id \in AllIds, alert_data \in TestAlerts :
          TriggerTestAlert(plan_id, alert_data)
    \/ TestAlertResume
    \/ \E c \in ConnIds, plan_id \in AllIds : Connect(c, plan_id)
    \/ \E c \in ConnIds : Disconnect(c)

SpecBroadcast == InitBroadcast /\ [][NextBroadcast]_vars

\* ------------------------------------------------------------------------
\* Properties
\* ------------------------------------------------------------------------
\* the alert a watchdog forwards at its next poll ({} if it forwards none)
ForwardedAlerts(t) ==
    IF tasks[t].pc # "fetch" \/ GetRealtimeState.raised
       \/ tasks[t].callback # "handle_alert_event"
    THEN {}
    ELSE LET signal == CompareStates(tasks[t].last_state, GetRealtimeState.state)
         IN IF signal = <<>> THEN {}
            ELSE {[signal[1] EXCEPT !.affected_plan_id = tasks[t].plan_id]}

TasksOf(plan_id) ==
    {t \in DOMAIN tasks : tasks[t].plan_id = plan_id /\ Alive(t)}

IsReplanned(plan) ==
    \E i \in DOMAIN plan.reasoning_path.text :
        plan.reasoning_path.text[i].kind = "auto_update"

\* C1: in every reachable state at most one Watchdog Loop task is alive for
\* any given plan id, whatever the interleaving of confirmations (repeated
\* ones included) with alert handling suspended in a broadcast.
C1_AtMostOneWatchdog ==
    \A plan_id \in AllIds : Cardinality(TasksOf(plan_id)) <= 1

\* a second confirm of the plan was rejected while its watchdog was
\* suspended inside the broadcast of an alert
C1_Witness ==
    /\ ConfirmError("not_verified") \in confirm_errors
    /\ \E t \in DOMAIN tasks : tasks[t].pc = "broadcast"

LifecycleEdges ==
    { <<"draft", "verified">>, <<"verified", "active">>,
      <<"active", "completed">>, <<"active", "cancelled">> }

\* C2: every change of a stored plan's status follows an edge of the
\* lifecycle graph DRAFT -> VERIFIED -> ACTIVE -> {COMPLETED, CANCELLED}, and
\* a plan becomes ACTIVE only through confirmAndActivate from VERIFIED.
C2_StatusFollowsLifecycle ==
    [][\A k \in DOMAIN plan_storage :
          (k \in DOMAIN plan_storage'
           /\ plan_storage'[k].status # plan_storage[k].status)
          => /\ <<plan_storage[k].status, plan_storage'[k].status>>
                    \in LifecycleEdges
             /\ plan_storage'[k].status = "active"
                    => ConfirmAndActivatePlan(k)]_vars

\* C3: confirming an unknown plan id and confirming a stored plan that is not
\* VERIFIED fail with two distinct error kinds the caller can tell apart.
C3_ErrorKindsDistinct ==
    \A e1, e2 \in confirm_errors :
        e1.cause # e2.cause => (e1.exc # e2.exc \/ e1.http # e2.http)

\* C4: after initiatePlanning the plan is stored under its own identity, with
\* status VERIFIED iff the validation result has no violation (warnings do
\* not matter) and DRAFT otherwise.
C4_VerifiedIffNoViolation ==
    \A k \in DOMAIN plan_storage :
        plan_storage[k].updated_at = 0 =>
            /\ plan_storage[k].plan_id = k
            /\ k \in DOMAIN validation_results
            /\ IF validation_results[k].violations = <<>>
               THEN plan_storage[k].status = "verified"
               ELSE plan_storage[k].status = "draft"

\* a plan was verified although validation produced warnings
C4_Witness ==
    \E k \in DOMAIN plan_storage :
        /\ plan_storage[k].updated_at = 0
        /\ plan_storage[k].status = "verified"
        /\ validation_results[k].warnings # <<>>

\* what a CRITICAL alert for a stored plan must have done when the handler
\* reaches its first suspension point (frame is the broadcast it is in)
C5_Post(alert, frame) ==
    LET plan_id == alert.affected_plan_id
    IN /\ plan_storage'[plan_id] = EmergencyReplan(plan_storage[plan_id], alert)
       /\ last_call'.broadcasts = <<[plan_id |-> plan_id, type |-> "plan_updated"]>>
       /\ Connections(plan_id) # <<>> =>
             /\ frame.plan_id = plan_id
             /\ frame.message = PlanUpdatedMessage(alert, plan_storage'[plan_id])
             /\ sockets'[Connections(plan_id)[1]].seen
                    = plan_storage'[plan_id].updated_at

C5_Step ==
    /\ \A alert \in ExternalAlerts :
          (ExternalAlert(alert) /\ alert.severity = "CRITICAL"
           /\ alert.affected_plan_id \in DOMAIN plan_storage)
          => C5_Post(alert, ext_call')
    /\ \A t \in DOMAIN tasks : \A alert \in ForwardedAlerts(t) :
          (MonitorPoll(t) /\ alert.severity = "CRITICAL"
           /\ alert.affected_plan_id \in DOMAIN plan_storage)
          => C5_Post(alert, tasks'[t].frame)

\* a subscriber that was sent plan_updated finds in storage a plan at least
\* as recent as the one the message carried
C5_SubscriberSeesUpdate ==
    \A c \in ConnIds :
        (sockets[c].state = "open" /\ sockets[c].seen > 0)
        => /\ sockets[c].plan_id \in DOMAIN plan_storage
           /\ plan_storage[sockets[c].plan_id].updated_at >= sockets[c].seen

\* C5: a CRITICAL alert for a stored plan replaces the stored plan by the
\* replanner's result before plan_updated is sent, the message carries the
\* alert and exactly the plan now stored, and a subscriber that reads the
\* plan after receiving plan_updated never sees the pre-replan plan.
C5_StoredBeforeBroadcast ==
    [][C5_Step /\ C5_SubscriberSeesUpdate']_vars

\* a replan that changed the plan is being broadcast: the first subscriber
\* has the message, the second has not been sent it yet
C5_Witness ==
    \E t \in DOMAIN tasks :
        /\ tasks[t].pc = "broadcast"
        /\ tasks[t].frame.message.type = "plan_updated"
        /\ tasks[t].frame.idx = 1
        /\ Len(Connections(tasks[t].plan_id)) = 2
        /\ IsReplanned(plan_storage[tasks[t].plan_id])
        /\ sockets[Connections(tasks[t].plan_id)[1]].seen > 0

\* what an INFO or WARNING alert must have done at the handler's first
\* suspension point
C6_Post(alert, frame) ==
    LET plan_id == alert.affected_plan_id
    IN /\ plan_storage' = plan_storage
       /\ alert.severity = "WARNING" =>
             /\ last_call'.broadcasts = <<[plan_id |-> plan_id, type |-> "alert"]>>
             /\ Connections(plan_id) # <<>> =>
                   (frame.plan_id = plan_id /\ frame.message = AlertMessage(alert))
       /\ alert.severity = "INFO" =>
             /\ last_call'.broadcasts = <<>>
             /\ frame = NoFrame
             /\ sockets' = sockets

\* C6: an INFO or WARNING alert never changes any stored plan; WARNING sends
\* exactly one broadcast of type alert to the affected plan's subscribers,
\* INFO sends none.
C6_NoMutationBelowCritical ==
    [][/\ \A alert \in ExternalAlerts :
             (ExternalAlert(alert) /\ alert.severity # "CRITICAL"
              /\ alert.affected_plan_id \in DOMAIN plan_storage)
             => C6_Post(alert, ext_call')
       /\ \A t \in DOMAIN tasks : \A alert \in ForwardedAlerts(t) :
             (MonitorPoll(t) /\ alert.severity # "CRITICAL"
              /\ alert.affected_plan_id \in DOMAIN plan_storage)
             => C6_Post(alert, tasks'[t].frame)]_vars

\* a WARNING alert for a plan with an affected activity was broadcast as an
\* alert to a subscriber of the plan
C6_Witness ==
    /\ last_call.severity = "WARNING"
    /\ last_call.known
    /\ ext_call # NoFrame
    /\ ext_call.message.type = "alert"
    /\ \E i \in DOMAIN plan_storage[ext_call.plan_id].main_itinerary :
          IsAffected(plan_storage[ext_call.plan_id].main_itinerary[i], "WARNING")

\* C7: handleAlert for a plan id that is not in storage returns normally: no
\* error, no stored plan changed, no broadcast, every watchdog left running.
C7_UnknownPlanTolerated ==
    [][\A alert \in ExternalAlerts :
          (ExternalAlert(alert) /\ alert.affected_plan_id \notin DOMAIN plan_storage)
          => /\ ~last_call'.raised
             /\ last_call'.broadcasts = <<>>
             /\ plan_storage' = plan_storage
             /\ sockets' = sockets
             /\ ext_call' = NoFrame
             /\ tasks' = tasks]_vars

\* an alert for an unknown plan id was handled while a client was subscribed
\* to that id and a watchdog was running
C7_Witness ==
    /\ last_call.severity = "CRITICAL"
    /\ ~last_call.known
    /\ Connections(last_call.plan_id) # <<>>
    /\ tasks # <<>>

\* C8: every entry of plan storage is keyed by the identity of the plan it
\* holds, also after replans.
C8_KeyedByIdentity ==
    \A k \in DOMAIN plan_storage : plan_storage[k].plan_id = k

\* a stored plan has been through a replan that swapped activities
C8_Witness ==
    \E k \in DOMAIN plan_storage :
        /\ IsReplanned(plan_storage[k])
        /\ \E i \in DOMAIN plan_storage[k].main_itinerary :
              plan_storage[k].main_itinerary[i] \in Range(plan_storage[k].alternatives)

\* C9: the activities of a stored plan's main_itinerary have pairwise
\* distinct identities in every reachable state (the oracle's drafts have
\* pairwise distinct identities across itinerary and alternatives).
C9_UniqueActivityIds ==
    \A k \in DOMAIN plan_storage :
        \A i, j \in DOMAIN plan_storage[k].main_itinerary :
            i # j => plan_storage[k].main_itinerary[i].activity_id
                     # plan_storage[k].main_itinerary[j].activity_id

\* C10: a stored plan whose status is not DRAFT has a non-empty
\* main_itinerary.
C10_NonEmptyOnceVerified ==
    \A k \in DOMAIN plan_storage :
        plan_storage[k].status # "draft" => plan_storage[k].main_itinerary # <<>>

\* the INDOOR alternatives of a plan, as a set
IndoorSet(plan) ==
    {alt \in Range(plan.alternatives) : alt.type = "indoor"}

\* C11: emergency_replan with a CRITICAL alert on a plan with at least one
\* INDOOR alternative returns an itinerary of the same length in which the
\* activity at a position is an INDOOR alternative exactly where the original
\* one is OUTDOOR with risk above 0.6, and is the original one elsewhere.
C11_SwapsExactlyAffected ==
    (/\ replan_call.called
     /\ replan_call.alert.severity = "CRITICAL"
     /\ IndoorSet(replan_call.original_plan) # {})
    => LET old == replan_call.original_plan.main_itinerary
           new == replan_call.updated_plan.main_itinerary
       IN /\ Len(new) = Len(old)
          /\ \A i \in DOMAIN old :
                IF old[i].type = "outdoor" /\ old[i].risk_score > 60
                THEN /\ new[i] \in IndoorSet(replan_call.original_plan)
                     /\ new[i] # old[i]
                ELSE new[i] = old[i]

\* the risk-0.9 activity was swapped while the risk-0.6 one next to it
\* stayed where it was
C11_Witness ==
    /\ replan_call.called
    /\ replan_call.alert.severity = "CRITICAL"
    /\ replan_call.original_plan.main_itinerary = <<Stroll, Hike>>
    /\ replan_call.updated_plan.main_itinerary = <<Stroll, Cinema>>

TrailLen(plan) == Len(plan.reasoning_path.text)

\* C12: every emergency_replan with a CRITICAL alert on a plan with at least
\* one INDOOR alternative makes the reasoning trail exactly one entry longer,
\* whatever the plan (empty or absent trail, no affected activity).
C12_TrailGrowsByOne ==
    (/\ replan_call.called
     /\ replan_call.alert.severity = "CRITICAL"
     /\ IndoorSet(replan_call.original_plan) # {})
    => TrailLen(replan_call.updated_plan)
         = TrailLen(replan_call.original_plan) + 1

\* C13: emergency_replan with an INFO alert returns a plan equal to its
\* input in every field.
C13_InfoIsIdentity ==
    (replan_call.called /\ replan_call.alert.severity = "INFO")
    => replan_call.updated_plan = replan_call.original_plan

\* an INFO alert left alone a plan that a CRITICAL alert would have changed
C13_Witness ==
    /\ replan_call.called
    /\ replan_call.alert.severity = "INFO"
    /\ replan_call.updated_plan.main_itinerary = <<Hike, Picnic>>
    /\ IndoorSet(replan_call.original_plan) # {}

\* C14: whenever a watchdog iteration that fetched a snapshot has reached its
\* sleep, the baseline is that snapshot, whether no signal was produced, the
\* alert was handled, or the handling raised.
C14_BaselineFollowsFetch ==
    \A t \in DOMAIN tasks :
        tasks[t].pc = "sleep" => tasks[t].last_state = tasks[t].current_state

\* C15: no failure of an environment fetch, before the loop or inside an
\* iteration, ends a watchdog task: none is ever finished by an exception.
C15_FetchFailureTolerated ==
    \A t \in DOMAIN tasks : tasks[t].pc # "failed"

\* the plan the watchdog specification starts from
WatchdogPlan ==
    [TripPlan(1, <<Hike, Picnic, Concert>>, <<Kayak, Cinema, Gallery>>,
              LlmReasoning) EXCEPT !.status = "active", !.updated_at = 1]

\* the plans a complete replan of WatchdogPlan can store
WholePlans ==
    {WatchdogPlan}
    \cup { EmergencyReplan(WatchdogPlan,
                           AlertSignal(change_type, "CRITICAL", 1, StormState)) :
             change_type \in {"weather", "traffic"} }

\* C16: cancelling a watchdog task at a suspension point ends it there: the
\* cancellation itself changes no plan and sends nothing, the task takes no
\* later step, and the stored plan is the pre-replan plan or the fully
\* replanned one.
C16_CancellationIsClean ==
    [][/\ \A t \in DOMAIN tasks :
             /\ CancelTask(t) => (plan_storage' = plan_storage
                                  /\ sockets' = sockets)
             /\ tasks[t].cancelled_at # "none" => tasks'[t] = tasks[t]
       /\ \A k \in DOMAIN plan_storage' : plan_storage'[k] \in WholePlans]_vars

\* the task was cancelled inside the broadcast of its replan: the plan is
\* stored replanned and the second subscriber was never sent the message
C16_Witness ==
    \E t \in DOMAIN tasks :
        /\ tasks[t].cancelled_at = "broadcast"
        /\ tasks[t].pc = "done"
        /\ IsReplanned(plan_storage[tasks[t].plan_id])
        /\ Len(Connections(tasks[t].plan_id)) = 2
        /\ sockets[Connections(tasks[t].plan_id)[2]].seen = 0

\* C17: a live watchdog task is suspended only before its first step, at a
\* fetch or in the interval sleep, never between detecting a signal and the
\* end of the alert's handling.
C17_SuspendsOnlyAtFetchAndSleep ==
    \A t \in DOMAIN tasks :
        Alive(t) => tasks[t].pc \in {"start", "fetch", "sleep"}

\* a step of the program that ends plan k and leaves it no live watchdog
C18_EndPlan(k) ==
    /\ Next
    /\ plan_storage'[k].status \in {"completed", "cancelled"}
    /\ \A t \in DOMAIN tasks' :
          tasks'[t].plan_id = k => tasks'[t].pc \in {"done", "failed"}

\* C18: a COMPLETED or CANCELLED plan has no live watchdog task, and a plan
\* that was activated and is being watched can be completed or cancelled by
\* a step that stops its watchdog.
C18_StoppedWithPlan ==
    \A k \in DOMAIN plan_storage :
        /\ plan_storage[k].status \in {"completed", "cancelled"}
              => TasksOf(k) = {}
        /\ (plan_storage[k].status = "active" /\ k \in DOMAIN active_monitors)
              => ENABLED C18_EndPlan(k)

\* the severity the weather transition table gives
C19_Expected(previous, current) ==
    LET critical == {"rain_heavy", "storm", "snow"}
    IN IF previous \notin critical /\ current \in critical THEN "CRITICAL"
       ELSE IF current = "rain_light" THEN "WARNING"
       ELSE IF previous \in critical /\ current = "clear" THEN "INFO"
       ELSE "WARNING"

TimesSent(call, c) ==
    Cardinality({ i \in DOMAIN call.sent : call.sent[i] = c })

\* C23: when a subscriber disconnects while a broadcast to its plan is
\* suspended in a send, the broadcast completes and every other subscriber
\* that stayed connected for the whole broadcast was sent the message
\* exactly once.
C23_OnlyTheLeaverIsSkipped ==
    (broadcast_call.done /\ broadcast_call.left # {})
    => \A c \in Range(broadcast_call.start) \ broadcast_call.left :
          TimesSent(broadcast_call, c) = 1

ReplacedPositions(call) ==
    { i \in DOMAIN call.original_plan.main_itinerary :
        call.updated_plan.main_itinerary[i]
          # call.original_plan.main_itinerary[i] }

\* C25: the audit note a replan appends to the reasoning trail records the
\* alert's change type and the number of itinerary activities that the
\* replan actually replaced by an alternative.
C25_NoteCountsActualSwaps ==
    (/\ replan_call.called
     /\ TrailLen(replan_call.updated_plan)
          = TrailLen(replan_call.original_plan) + 1)
    => LET trail == replan_call.updated_plan.reasoning_path.text
           note == trail[Len(trail)]
       IN /\ note.change_type = replan_call.alert.change_type
          /\ note.swapped = Cardinality(ReplacedPositions(replan_call))

\* C26: a non-INFO replan on a plan without an INDOOR alternative completes
\* and returns the input itinerary: every affected activity stays where it
\* was.
C26_NoAlternativeKeepsItinerary ==
    (/\ replan_call.called
     /\ replan_call.alert.severity # "INFO"
     /\ IndoorSet(replan_call.original_plan) = {})
    => replan_call.updated_plan.main_itinerary
         = replan_call.original_plan.main_itinerary

\* a CRITICAL replan of a plan with a risky hike and only an OUTDOOR
\* alternative went through the swap loop and kept the hike
C26_Witness ==
    /\ replan_call.called
    /\ replan_call.alert.severity = "CRITICAL"
    /\ replan_call.original_plan.main_itinerary = <<Hike, Museum>>
    /\ replan_call.original_plan.alternatives = <<Kayak>>
    /\ replan_call.updated_plan.main_itinerary = <<Hike, Museum>>
    /\ replan_call.updated_plan.updated_at
          = replan_call.original_plan.updated_at + 1

\* the first INDOOR entry of a list of alternatives, by position
FirstIndoor(alternatives) ==
    LET indoor == { i \in DOMAIN alternatives :
                      alternatives[i].type = "indoor" }
    IN alternatives[CHOOSE i \in indoor : \A j \in indoor : i <= j]

C28_BudgetThresholds ==
    validate_call.called
    => LET sum == SumSeq(Amounts(validate_call.plan.main_itinerary))
           L == validate_call.profile.budget_limit
           violation == "budget_exceeded"
                          \in Range(validate_call.result.violations)
           warning == "budget_usage_high"
                        \in Range(validate_call.result.warnings)
       IN /\ violation <=> 11 * sum > 10 * L
          /\ warning <=> (11 * sum <= 10 * L /\ 22 * sum > 19 * L)
          /\ ~(violation /\ warning)

\* C29: a profile with any dietary restriction and an itinerary without a
\* food-related activity give a dietary warning and no dietary violation.
C29_NoFoodActivityWarns ==
    (/\ validate_call.called
     /\ validate_call.profile.dietary_restrictions # <<>>
     /\ \A i \in DOMAIN validate_call.plan.main_itinerary :
           ~IsFoodActivity(validate_call.plan.main_itinerary[i]))
    => /\ "no_food_activities" \in Range(validate_call.result.warnings)
       /\ Range(validate_call.result.violations)
             \cap Range(validate_call.profile.dietary_restrictions) = {}

\* the activities of a plan whose constraint map does not confirm wheelchair
\* access: no map, an empty map, or a map without the confirmation
Unconfirmed(plan) ==
    { i \in DOMAIN plan.main_itinerary :
        plan.main_itinerary[i].constraints # "wheelchair" }

\* C30: when the profile requires wheelchair accessibility, the mobility
\* check gives one warning for every activity whose constraint map does not
\* confirm it (absent and empty maps included) and never a violation.
C30_UnconfirmedAccessWarns ==
    (/\ validate_call.called
     /\ "wheelchair_accessible" \in validate_call.profile.mobility_constraints)
    => /\ Cardinality({ i \in DOMAIN validate_call.result.warnings :
                          validate_call.result.warnings[i]
                            = "accessibility_not_confirmed" })
             = Cardinality(Unconfirmed(validate_call.plan))
       /\ "accessibility_not_confirmed"
             \notin Range(validate_call.result.violations)

\* 0 <= x <= 1
InUnitInterval(x) == ~FLess(x, FromInt(0)) /\ ~FLess(FromInt(1), x)

\* C31: the score of every plan and preference list lies in [0, 1], is the
\* value calculate_score gives for these inputs, and is exactly 0.0 for an
\* empty main itinerary; each of the five sub-scores lies in [0, 1].
C31_ScoreInUnitInterval ==
    score_call.called
    => LET plan == score_call.plan
           result == score_call.result
       IN /\ 0 <= result.score /\ result.score <= 100
          /\ result = CalculateScore(plan, score_call.preferences)
          /\ plan.main_itinerary = <<>> => result.score = 0
          /\ plan.main_itinerary # <<>>
                => /\ Len(result.scores) = 5
                   /\ \A k \in DOMAIN result.scores :
                         InUnitInterval(result.scores[k])

\* one activity with three alternatives: the coverage ratio of 6.0 was capped
\* at 1.0, and the plan scored round(0.575, 2)
C31_Witness ==
    /\ score_call.called
    /\ score_call.plan.main_itinerary = <<Hike>>
    /\ Len(score_call.plan.alternatives) = 3
    /\ score_call.preferences = <<>>
    /\ ~FLess(score_call.result.scores[5], FromInt(1))
    /\ score_call.result.score = 57

\* C32: every plan that has a Watchdog Loop task, or an entry in the monitor
\* table, passed validation with an empty violation list; and a
\* confirmAndActivate call for a stored plan whose validation reported
\* violations changes neither the stored plans nor the tasks nor the monitor
\* table, however often it is made.
C32_OnlyValidatedPlansMonitored ==
    /\ [](\A plan_id \in AllIds :
            (plan_id \in DOMAIN active_monitors
             \/ \E t \in DOMAIN tasks : tasks[t].plan_id = plan_id)
            => /\ plan_id \in DOMAIN validation_results
               /\ validation_results[plan_id].is_valid
               /\ validation_results[plan_id].violations = <<>>)
    /\ [][\A plan_id \in DOMAIN plan_storage :
            (/\ validation_results[plan_id].violations # <<>>
             /\ ConfirmAndActivatePlan(plan_id))
            => /\ plan_storage' = plan_storage
               /\ tasks' = tasks
               /\ active_monitors' = active_monitors]_vars

\* a plan stored as DRAFT for its violations was confirmed, the call was
\* rejected, and no task exists
C32_Witness ==
    /\ \E plan_id \in DOMAIN plan_storage :
          /\ validation_results[plan_id].violations # <<>>
          /\ plan_storage[plan_id].status = "draft"
    /\ ConfirmError("not_verified") \in confirm_errors
    /\ tasks = <<>>
    /\ active_monitors = EmptyDict

\* watchdog t forwards an alert in the iteration it is about to run
Forwards(t) ==
    /\ tasks[t].pc = "fetch"
    /\ ~GetRealtimeState.raised
    /\ CompareStates(tasks[t].last_state, GetRealtimeState.state) # <<>>

\* C33: with several plans monitored at once, the alert a watchdog forwards
\* carries the id of the plan the watchdog is bound to, and handling it (the
\* broadcast it is suspended in included) changes no stored plan but that
\* one, delivers to no client but the subscribers of that plan, and leaves
\* every connection list as it was.
C33_AlertsStayWithTheirPlan ==
    [][\A t \in DOMAIN tasks :
          LET plan_id == tasks[t].plan_id
          IN /\ (MonitorPoll(t) /\ Forwards(t))
                => /\ last_call'.plan_id = plan_id
                   /\ last_call'.known
                   /\ \A i \in DOMAIN last_call'.broadcasts :
                         last_call'.broadcasts[i].plan_id = plan_id
                   /\ tasks'[t].pc = "broadcast"
                         => tasks'[t].frame.plan_id = plan_id
             /\ (MonitorPoll(t) \/ MonitorBroadcast(t))
                => /\ DOMAIN plan_storage' = DOMAIN plan_storage
                   /\ \A k \in DOMAIN plan_storage :
                         k # plan_id => plan_storage'[k] = plan_storage[k]
                   /\ \A c \in ConnIds :
                         sockets[c].plan_id # plan_id
                           => sockets'[c] = sockets[c]
                   /\ active_connections' = active_connections]_vars

\* both plans are monitored and subscribed to; plan 1 was replanned and its
\* subscriber got the update, plan 2 and its subscriber are as they were
C33_Witness ==
    /\ \A k \in {1, 2} : \E t \in DOMAIN tasks :
          tasks[t].plan_id = k /\ Alive(t)
    /\ IsReplanned(plan_storage[1])
    /\ ~IsReplanned(plan_storage[2])
    /\ plan_storage[2].updated_at = 1
    /\ \E c1, c2 \in ConnIds :
          /\ sockets[c1].state = "open" /\ sockets[c1].plan_id = 1
          /\ sockets[c1].seen = plan_storage[1].updated_at
          /\ sockets[c2].state = "open" /\ sockets[c2].plan_id = 2
          /\ sockets[c2].seen = 0

\* the positions of the OUTDOOR activities with risk above 0.6
RiskyOutdoor(plan) ==
    { i \in DOMAIN plan.main_itinerary :
        /\ plan.main_itinerary[i].type = "outdoor"
        /\ plan.main_itinerary[i].risk_score > 60 }

\* the watchdog of an ACTIVE plan is about to poll, its baseline weather is
\* not critical, the weather is critical now, and the plan has an OUTDOOR
\* activity with risk above 0.6 and an INDOOR alternative
CriticalChangePending(plan_id) ==
    /\ plan_id \in DOMAIN plan_storage
    /\ plan_storage[plan_id].status = "active"
    /\ RiskyOutdoor(plan_storage[plan_id]) # {}
    /\ IndoorSet(plan_storage[plan_id]) # {}
    /\ \E t \in DOMAIN tasks :
          /\ tasks[t].plan_id = plan_id
          /\ tasks[t].pc = "fetch"
          /\ tasks[t].last_state.weather_code \notin critical_conditions
          /\ ~GetRealtimeState.raised
          /\ GetRealtimeState.state.weather_code \in critical_conditions

\* C34: under fair scheduling and without cancellation, once the weather of
\* an ACTIVE plan has turned from a non-critical code to a critical one
\* between two polls, and the plan has an OUTDOOR activity with risk above
\* 0.6 and an INDOOR alternative, eventually the stored plan has the activity
\* replaced and every subscriber that stays connected has been sent the
\* plan_updated message.
C34_CriticalChangeReplansAndNotifies ==
    \A c \in ConnIds :
        (/\ CriticalChangePending(1)
         /\ sockets[c].state = "open"
         /\ sockets[c].plan_id = 1)
        ~> (\/ /\ RiskyOutdoor(plan_storage[1]) = {}
               /\ IsReplanned(plan_storage[1])
               /\ sockets[c].seen = plan_storage[1].updated_at
            \/ sockets[c].state = "closed")

\* watchdog t is about to fetch a snapshot equal to the one it fetched last
SameSnapshotAgain(t) ==
    /\ tasks[t].pc = "fetch"
    /\ ~GetRealtimeState.raised
    /\ GetRealtimeState.state.weather_code = tasks[t].current_state.weather_code
    /\ GetRealtimeState.state.traffic_index = tasks[t].current_state.traffic_index
    /\ GetRealtimeState.state.temperature = tasks[t].current_state.temperature

\* C35: a watchdog forwards an alert only on the poll at which a change is
\* first observed: a poll whose fetched snapshot equals the previously
\* fetched one in weather, traffic and temperature forwards no alert, so a
\* change that persists is reported once, however many polls follow.
C35_NoAlertWhileSnapshotsEqual ==
    [][\A t \in DOMAIN tasks :
          (MonitorPoll(t) /\ SameSnapshotAgain(t)) => ~Forwards(t)]_vars

\* confirm_and_activate_plan(plan_id) is about to fail
ConfirmFails(plan_id) ==
    \/ plan_id \notin DOMAIN plan_storage
    \/ plan_storage[plan_id].status # "verified"

\* C36: a confirm_and_activate_plan call that fails (unknown id, or a status
\* other than VERIFIED) leaves the system as it was: no plan's status or
\* timestamp changes, no watchdog task is created, and plan storage, the
\* task registry, the validation results, the connections and the
\* environment overrides are as before the call.
C36_FailedConfirmChangesNothing ==
    [][\A plan_id \in AllIds :
          (ConfirmAndActivatePlan(plan_id) /\ ConfirmFails(plan_id))
            => /\ plan_storage' = plan_storage
               /\ tasks' = tasks
               /\ active_monitors' = active_monitors
               /\ validation_results' = validation_results
               /\ active_connections' = active_connections
               /\ sockets' = sockets
               /\ mock_state' = mock_state
               /\ timeline' = timeline
               /\ last_call' = last_call
               /\ ext_call' = ext_call]_vars

\* both kinds of failing call were made: one for an id that is not stored
\* and one for a stored plan that is not VERIFIED
C36_Witness ==
    /\ ConfirmError("not_found") \in confirm_errors
    /\ ConfirmError("not_verified") \in confirm_errors
    /\ \E k \in DOMAIN plan_storage : plan_storage[k].status # "verified"

\* the number of OUTDOOR activities of an itinerary
OutdoorCount(itinerary) ==
    Cardinality({ i \in DOMAIN itinerary : itinerary[i].type = "outdoor" })

\* C37: across any sequence of alerts handled for a plan, the stored main
\* itinerary keeps its length, its number of OUTDOOR activities never
\* increases, and a position whose activity changes held an OUTDOOR activity
\* and holds an INDOOR one afterwards (no INDOOR activity is ever replaced).
C37_OnlyOutdoorGivesWayToIndoor ==
    [][\A k \in DOMAIN plan_storage :
          LET old == plan_storage[k].main_itinerary
              new == plan_storage'[k].main_itinerary
          IN /\ Len(new) = Len(old)
             /\ OutdoorCount(new) <= OutdoorCount(old)
             /\ \A i \in DOMAIN old :
                   new[i] # old[i]
                     => old[i].type = "outdoor" /\ new[i].type = "indoor"]_vars

\* a CRITICAL alert was handled for the plan [Hike, Sauna]: Hike gave way
\* to Cinema, Sauna (INDOOR, risk 0.9) stayed, and the handler has returned
C37_Witness ==
    /\ 1 \in DOMAIN plan_storage
    /\ IsReplanned(plan_storage[1])
    /\ plan_storage[1].main_itinerary = <<Cinema, Sauna>>
    /\ last_call.known /\ last_call.severity = "CRITICAL"
    /\ ext_call = NoFrame

\* C38: emergency replanning is idempotent on the itinerary: for every plan
\* p and every CRITICAL alert a, the main itinerary of replan(replan(p, a), a)
\* equals the main itinerary of replan(p, a).
C38_ReplanIdempotentOnItinerary ==
    (replan_call.called /\ replan_call.alert.severity = "CRITICAL")
      => EmergencyReplan(replan_call.updated_plan,
                         replan_call.alert).main_itinerary
           = replan_call.updated_plan.main_itinerary

\* a CRITICAL replan that swapped both activities of [Hike, Hike]
C38_Witness ==
    /\ replan_call.called
    /\ replan_call.alert.severity = "CRITICAL"
    /\ replan_call.original_plan.main_itinerary = <<Hike, Hike>>
    /\ replan_call.updated_plan.main_itinerary = <<Gallery, Gallery>>

\* C39: the baseline of a watchdog is the snapshot fetched when it starts,
\* and the start itself raises no alert; a poll that fetches a snapshot equal
\* to the baseline forwards no alert and replans nothing, whatever the
\* conditions are (a storm already there at activation included).  An alert
\* can therefore only come from a difference between two snapshots fetched
\* after activation.
C39_StandingConditionRaisesNoAlert ==
    [][\A t \in DOMAIN tasks :
          /\ (MonitorStart(t) /\ ~GetRealtimeState.raised)
                => /\ tasks'[t].last_state = GetRealtimeState.state
                   /\ plan_storage' = plan_storage
                   /\ last_call' = last_call
                   /\ sockets' = sockets
          /\ (MonitorPoll(t) /\ ~GetRealtimeState.raised
                            /\ GetRealtimeState.state = tasks[t].last_state)
                => /\ ~Forwards(t)
                   /\ plan_storage' = plan_storage
                   /\ last_call' = last_call
                   /\ sockets' = sockets]_vars

\* the storm was there when the watchdog started: the baseline is the storm
\* snapshot, a poll has run, no alert was handled and the plan is as it was
C39_Witness ==
    \E t \in DOMAIN tasks :
        /\ tasks[t].callback = "handle_alert_event"
        /\ tasks[t].pc = "sleep"
        /\ tasks[t].last_state = StormState
        /\ mock_state = {StormState}
        /\ last_call = NoCall
        /\ ~IsReplanned(plan_storage[tasks[t].plan_id])

====
